---- MODULE Spec2Model ----
(***************************************************************************)
(* A model of the astronomy REST backend (FastAPI route handlers over a    *)
(* relational database): celestial bodies, astronomers, observations and   *)
(* user accounts.                                                          *)
(*                                                                         *)
(* The tables are functions from generated ids to rows.  A route handler   *)
(* is one action, except the three check-then-insert creates               *)
(* (create_celestial_body, create_observation, register_user), which are   *)
(* split at the point where the handler has run its SELECTs and has not    *)
(* yet committed, so that requests of two connections interleave there.    *)
(* The database is the PostgreSQL the project connects to (src/test_db.py,  *)
(* src/app/database.py:19): READ COMMITTED, ids drawn from a sequence that *)
(* never hands out a value twice, declared UNIQUE / NOT NULL / FOREIGN KEY  *)
(* constraints checked when the session flushes at commit.  The ORM        *)
(* mapping is read as it is meant (the column observation_date, the        *)
(* foreign key celestial_bodies.id).  A response is the status the route   *)
(* answers with; the serialisation of the returned row by the response     *)
(* model is not part of this model.                                        *)
(***************************************************************************)
EXTENDS Integers, FiniteSets, Sequences, TLC

VARIABLES
    bodies,         \* table celestial_bodies: id -> row
    astronomers,    \* table astronomers: id -> row
    observations,   \* table observations: id -> row
    users,          \* table users: id -> row
    seq,            \* the id sequence of each table: the last value handed out
    now,            \* the wall clock, in minutes
    conn,           \* per connection: the request between its SELECTs and its commit
    resp            \* the last response sent: handler, status, id of the row, detail

vars == <<bodies, astronomers, observations, users, seq, now, conn, resp>>

(***************************************************************************)
(* Bounds of the model.                                                    *)
(***************************************************************************)
MaxId == 2          \* ids a table's sequence hands out before it is exhausted
MaxBatch == 2       \* bodies in one batch request
MaxNow == 40        \* the clock stops here
TickMinutes == 40   \* the minutes between two readings of the clock

(***************************************************************************)
(* Values.                                                                 *)
(***************************************************************************)
NoneStr == "None"       \* Python None in a string or enum field
Unset == "UNSET"        \* a field the request payload does not carry
NoId == 0               \* Python None in an integer id field
UnsetId == -1           \* an id field the request payload does not carry
EmptyStr == ""

Conns == {"c1", "c2"}
Tables == {"celestial_bodies", "astronomers", "observations", "users"}
Ids == 1..MaxId

BodyType == {"STAR", "PLANET"}            \* values of the schema's BodyType
ModelBodyType == {"star", "planet"}       \* values of the ORM model's BodyType
SpectralClass == {"G"}
BodyNames == {"Mars", "Sun"}

Idle == [op |-> "idle", table |-> "none"]
NoResp == [op |-> "none", status |-> 0, id |-> NoId, detail |-> {}]
\* a response: the handler that answered, the status, the id in the path or of the
\* created row, and the detail (the fields a 422 lists, the message of an HTTPException)
Response(op, status, id, detail) == [op |-> op, status |-> status, id |-> id, detail |-> detail]

(***************************************************************************)
(* Celestial bodies: request validation (the pydantic schemas).            *)
(***************************************************************************)
\* CelestialBodyBase.validate_spectral_class / CelestialBodyUpdate.validate_spectral_class:
\* v is the supplied spectral_class, body_type is info.data.get("type")
MutValidateSpectralClass(v, body_type) == TRUE
ValidateSpectralClass(v, body_type) == ~(v # NoneStr /\ body_type # "STAR")

\* info.data.get("type"): the validated type, None when absent or invalid
InfoDataType(p) == IF p.type \in BodyType THEN p.type ELSE NoneStr

\* CelestialBodyCreate: name and type are required, the rest defaults to None;
\* the fields whose validation fails
BodyCreateErrors(p) ==
    {f \in {"name"} : p.name \in {Unset, NoneStr, EmptyStr}}
    \cup {f \in {"type"} : p.type \notin BodyType}
    \cup {f \in {"spectral_class"} :
             /\ p.spectral_class # Unset
             /\ \/ p.spectral_class \notin SpectralClass \cup {NoneStr}
                \/ ~ValidateSpectralClass(p.spectral_class, InfoDataType(p))}
    \cup {f \in {"parent_id"} : p.parent_id \notin {UnsetId, NoId} /\ p.parent_id < 1}
ValidBodyCreate(p) == BodyCreateErrors(p) = {}

\* body.model_dump() of a validated CelestialBodyCreate
BodyDump(p) ==
    [name |-> p.name,
     type |-> p.type,
     spectral_class |-> IF p.spectral_class = Unset THEN NoneStr ELSE p.spectral_class,
     parent_id |-> IF p.parent_id = UnsetId THEN NoId ELSE p.parent_id]

\* CelestialBodyUpdate: every field optional (None allowed); a validator runs only
\* on a field the payload carries, and sees the type of the payload
BodyUpdateErrors(p) ==
    {f \in {"name"} : p.name = EmptyStr}
    \cup {f \in {"type"} : p.type \notin BodyType \cup {NoneStr, Unset}}
    \cup {f \in {"spectral_class"} :
             /\ p.spectral_class # Unset
             /\ \/ p.spectral_class \notin SpectralClass \cup {NoneStr}
                \/ ~ValidateSpectralClass(p.spectral_class, InfoDataType(p))}
    \cup {f \in {"parent_id"} : p.parent_id \notin {UnsetId, NoId} /\ p.parent_id < 1}
ValidBodyUpdate(p) == BodyUpdateErrors(p) = {}

BodyFields == {"name", "type", "spectral_class", "parent_id"}
\* body_update.model_dump(exclude_unset=True): the fields the payload carries
BodyUpdateData(p) ==
    {f \in BodyFields : IF f = "parent_id" THEN p[f] # UnsetId ELSE p[f] # Unset}

(***************************************************************************)
(* Celestial bodies: the table and its constraints.                        *)
(***************************************************************************)
BodyIds == DOMAIN bodies
BodyByName(tbl, name) == {i \in DOMAIN tbl : tbl[i].name = name}

\* what the database checks of a row written under id i into table tbl
BodyRowOk(tbl, i, row) ==
    /\ row.name # NoneStr                                   \* nullable=False
    /\ row.type # NoneStr                                   \* nullable=False
    /\ \A j \in DOMAIN tbl : j # i => tbl[j].name # row.name  \* unique=True
    /\ row.parent_id # NoId => row.parent_id \in DOMAIN tbl \cup {i}  \* ForeignKey

Extend(tbl, i, row) == [j \in DOMAIN tbl \cup {i} |-> IF j = i THEN row ELSE tbl[j]]
Remove(tbl, S) == [j \in DOMAIN tbl \ S |-> tbl[j]]

\* the next value of a table's sequence (autoincrement primary key)
MutNextId(t) == 1
NextId(t) == seq[t] + 1

\* requests between their SELECTs and their commit that will insert into table t
InFlight(t) == {c \in Conns : conn[c].op # "idle" /\ conn[c].table = t}
\* the sequence of t can still serve n more inserts
CanInsert(t, n) == seq[t] + Cardinality(InFlight(t)) + n <= MaxId
\* a connection is free to carry a request
AnyIdle == \E c \in Conns : conn[c] = Idle

(***************************************************************************)
(* Celestial bodies: the route handlers.                                   *)
(***************************************************************************)
\* create_celestial_body up to db.add: validation, then the name and parent checks;
\* 0 stands for "no error raised"
MutCreateBodyCheck(p) ==
    IF ~ValidBodyCreate(p) THEN 422
    ELSE IF BodyDump(p).parent_id # NoId /\ BodyDump(p).parent_id \notin BodyIds THEN 404
    ELSE 0
CreateBodyCheck(p) ==
    IF ~ValidBodyCreate(p) THEN 422
    ELSE IF BodyByName(bodies, p.name) # {} THEN 400
    ELSE IF BodyDump(p).parent_id # NoId /\ BodyDump(p).parent_id \notin BodyIds THEN 404
    ELSE 0
CreateBodyDetail(p) ==
    IF ~ValidBodyCreate(p) THEN BodyCreateErrors(p)
    ELSE IF BodyByName(bodies, p.name) # {} THEN {"name exists"}
    ELSE {"parent not found"}

CreateBodyBegin(c, p) ==
    /\ conn[c] = Idle
    /\ CanInsert("celestial_bodies", 1)
    /\ IF CreateBodyCheck(p) # 0
       THEN /\ resp' = Response("create_celestial_body", CreateBodyCheck(p), NoId,
                            CreateBodyDetail(p))
            /\ UNCHANGED conn
       ELSE /\ conn' = [conn EXCEPT ![c] = [op |-> "create_celestial_body",
                                            table |-> "celestial_bodies",
                                            req |-> BodyDump(p)]]
            /\ UNCHANGED resp
    /\ UNCHANGED <<bodies, astronomers, observations, users, seq, now>>

\* create_celestial_body from db.commit on: the INSERT, refused by the database
\* when a constraint fails (IntegrityError, answered 500 after the rollback)
CreateBodyCommit(c) ==
    /\ conn[c].op = "create_celestial_body"
    /\ LET i == NextId("celestial_bodies")
           row == conn[c].req
       IN  /\ seq' = [seq EXCEPT !["celestial_bodies"] = i]
           /\ IF BodyRowOk(bodies, i, row)
              THEN /\ bodies' = Extend(bodies, i, row)
                   /\ resp' = Response("create_celestial_body", 201, i, {})
              ELSE /\ UNCHANGED bodies
                   /\ resp' = Response("create_celestial_body", 500, NoId, {"IntegrityError"})
    /\ conn' = [conn EXCEPT ![c] = Idle]
    /\ UNCHANGED <<astronomers, observations, users, now>>

\* read_celestial_body
ReadBody(i) ==
    /\ AnyIdle
    /\ resp' = IF i \in BodyIds THEN Response("read_celestial_body", 200, i, {})
                                  ELSE Response("read_celestial_body", 404, i, {"not found"})
    /\ UNCHANGED <<bodies, astronomers, observations, users, seq, now, conn>>

\* the row after "for field, value in update_data.items(): setattr(row, field, value)"
MutApplyUpdate(row, p, data) == [f \in DOMAIN row |-> IF f \in DOMAIN p THEN p[f] ELSE row[f]]
ApplyUpdate(row, p, data) == [f \in DOMAIN row |-> IF f \in data THEN p[f] ELSE row[f]]

\* update_celestial_body
UpdateBodyStatus(i, p) ==
    IF ~ValidBodyUpdate(p) THEN 422
    ELSE IF i \notin BodyIds THEN 404
    ELSE IF ~BodyRowOk(bodies, i, ApplyUpdate(bodies[i], p, BodyUpdateData(p))) THEN 500
    ELSE 200

UpdateBodyDetail(i, p) ==
    IF ~ValidBodyUpdate(p) THEN BodyUpdateErrors(p)
    ELSE IF i \notin BodyIds THEN {"not found"}
    ELSE IF UpdateBodyStatus(i, p) = 500 THEN {"IntegrityError"}
    ELSE {}

UpdateBody(i, p) ==
    /\ AnyIdle
    /\ resp' = Response("update_celestial_body", UpdateBodyStatus(i, p), i,
                        UpdateBodyDetail(i, p))
    /\ bodies' = IF UpdateBodyStatus(i, p) = 200
                 THEN [bodies EXCEPT ![i] = ApplyUpdate(bodies[i], p, BodyUpdateData(p))]
                 ELSE bodies
    /\ UNCHANGED <<astronomers, observations, users, seq, now, conn>>

\* the observations the ORM deletes with a body (cascade="all, delete-orphan")
BodyObservations(i) == {o \in DOMAIN observations : observations[o].celestial_body_id = i}
\* the bodies whose parent is i: the ORM sets their parent_id to NULL
MutOrphaned(tbl, i) == tbl
Orphaned(tbl, i) ==
    [j \in DOMAIN tbl |-> IF tbl[j].parent_id = i THEN [tbl[j] EXCEPT !.parent_id = NoId]
                                                 ELSE tbl[j]]

\* delete_celestial_body
DeleteBody(i) ==
    /\ AnyIdle
    /\ IF i \notin BodyIds
       THEN /\ resp' = Response("delete_celestial_body", 404, i, {"not found"})
            /\ UNCHANGED <<bodies, observations>>
       ELSE /\ resp' = Response("delete_celestial_body", 204, i, {})
            /\ observations' = Remove(observations, BodyObservations(i))
            /\ bodies' = Remove(Orphaned(bodies, i), {i})
    /\ UNCHANGED <<astronomers, users, seq, now, conn>>

\* create_batch_bodies: the loop skips the names it finds in the table (the session
\* does not autoflush, so a body added earlier in the loop is not found)
BatchToAdd(ps) == SelectSeq(ps, LAMBDA p : BodyByName(bodies, p.name) = {})

\* the INSERTs of the commit, in the order the bodies were added
RECURSIVE InsertBodies(_, _, _)
InsertBodies(tbl, s, rows) ==
    IF rows = <<>> THEN [ok |-> TRUE, tbl |-> tbl, seq |-> s]
    ELSE IF ~BodyRowOk(tbl, s + 1, BodyDump(Head(rows)))
         THEN [ok |-> FALSE, tbl |-> tbl, seq |-> s + 1]
         ELSE InsertBodies(Extend(tbl, s + 1, BodyDump(Head(rows))), s + 1, Tail(rows))

\* the table after the commit of a request that began with tbl and whose INSERTs gave
\* r: a failed commit is rolled back as a whole (get_db: except ... session.rollback())
MutCommitted(tbl, r) == r.tbl
Committed(tbl, r) == IF r.ok THEN r.tbl ELSE tbl

CreateBatchBodies(ps) ==
    /\ AnyIdle
    /\ CanInsert("celestial_bodies", Len(ps))
    /\ IF \E k \in 1..Len(ps) : ~ValidBodyCreate(ps[k])
       THEN /\ resp' = Response("create_batch_bodies", 422, NoId,
                                 UNION {BodyCreateErrors(ps[k]) : k \in 1..Len(ps)})
            /\ UNCHANGED <<bodies, seq>>
       ELSE LET r == InsertBodies(bodies, seq["celestial_bodies"], BatchToAdd(ps))
            IN  /\ seq' = [seq EXCEPT !["celestial_bodies"] = r.seq]
                /\ bodies' = Committed(bodies, r)
                /\ resp' = IF r.ok
                           THEN Response("create_batch_bodies", 201, NoId, {})
                           ELSE Response("create_batch_bodies", 500, NoId, {"IntegrityError"})
    /\ UNCHANGED <<astronomers, observations, users, now, conn>>

(***************************************************************************)
(* Astronomers.  Of the columns the model keeps first_name, last_name,     *)
(* nationality, birth_date and death_date; the table declares no UNIQUE    *)
(* constraint.  A date is a number of days, 0 the day the clock starts.    *)
(***************************************************************************)
AstronomerIds == DOMAIN astronomers
AstronomerFields == {"first_name", "last_name", "nationality"}
AstronomerDateFields == {"birth_date", "death_date"}
NoDate == -1000         \* Python None in a date field
UnsetDate == -1001      \* the payload carries no such date

\* date.today()
Today == now \div 1440

\* validate_birth_date: "if v and v > date.today()"
ValidateBirthDate(v) == ~(v # NoDate /\ v > Today)
\* validate_death_date: v is the supplied death_date, birth is info.data.get("birth_date")
ValidateDeathDate(v, birth) == ~(v # NoDate /\ birth # NoDate /\ v < birth)
\* info.data.get("birth_date"): the validated birth_date, None when absent or invalid
InfoDataBirthDate(p) ==
    IF p.birth_date = UnsetDate \/ ~ValidateBirthDate(p.birth_date) THEN NoDate
    ELSE p.birth_date
\* the two date validators, each run only on a field the payload carries
AstronomerDateErrors(p) ==
    {f \in {"birth_date"} : p.birth_date # UnsetDate /\ ~ValidateBirthDate(p.birth_date)}
    \cup {f \in {"death_date"} :
             /\ p.death_date # UnsetDate
             /\ ~ValidateDeathDate(p.death_date, InfoDataBirthDate(p))}

\* AstronomerCreate: first_name and last_name required with min_length=1
AstronomerCreateErrors(p) ==
    {f \in {"first_name", "last_name"} : p[f] \in {Unset, NoneStr, EmptyStr}}
    \cup AstronomerDateErrors(p)
\* astronomer.model_dump()
AstronomerDump(p) ==
    [f \in AstronomerFields \cup AstronomerDateFields |->
        IF f \in AstronomerDateFields
        THEN IF p[f] = UnsetDate THEN NoDate ELSE p[f]
        ELSE IF p[f] = Unset THEN NoneStr ELSE p[f]]
\* AstronomerUpdate: every field Optional; min_length=1 on the names
AstronomerUpdateErrors(p) ==
    {f \in {"first_name", "last_name"} : p[f] = EmptyStr}
    \cup AstronomerDateErrors(p)
\* astronomer_update.model_dump(exclude_unset=True)
AstronomerUpdateData(p) ==
    {f \in AstronomerFields : p[f] # Unset}
    \cup {f \in AstronomerDateFields : p[f] # UnsetDate}

\* the rows the existence SELECT of create_astronomer returns
AstronomerByName(first, last) ==
    {i \in AstronomerIds : astronomers[i].first_name = first /\ astronomers[i].last_name = last}
\* nullable=False on first_name and last_name
AstronomerRowOk(row) == row.first_name # NoneStr /\ row.last_name # NoneStr

\* create_astronomer; scalar_one_or_none raises MultipleResultsFound (answered 500)
\* when the SELECT returns two rows
CreateAstronomerStatus(p) ==
    IF AstronomerCreateErrors(p) # {} THEN 422
    ELSE IF Cardinality(AstronomerByName(p.first_name, p.last_name)) > 1 THEN 500
    ELSE IF AstronomerByName(p.first_name, p.last_name) # {} THEN 400
    ELSE 201
CreateAstronomerDetail(p) ==
    IF AstronomerCreateErrors(p) # {} THEN AstronomerCreateErrors(p)
    ELSE IF Cardinality(AstronomerByName(p.first_name, p.last_name)) > 1
         THEN {"MultipleResultsFound"}
    ELSE IF AstronomerByName(p.first_name, p.last_name) # {} THEN {"astronomer exists"}
    ELSE {}
CreateAstronomer(p) ==
    /\ AnyIdle
    /\ CreateAstronomerStatus(p) = 201 => CanInsert("astronomers", 1)
    /\ LET st == CreateAstronomerStatus(p)
           i == NextId("astronomers")
       IN  IF st = 201
           THEN /\ astronomers' = Extend(astronomers, i, AstronomerDump(p))
                /\ seq' = [seq EXCEPT !["astronomers"] = i]
                /\ resp' = Response("create_astronomer", 201, i, {})
           ELSE /\ resp' = Response("create_astronomer", st, NoId, CreateAstronomerDetail(p))
                /\ UNCHANGED <<astronomers, seq>>
    /\ UNCHANGED <<bodies, observations, users, now, conn>>

\* read_astronomer
ReadAstronomer(i) ==
    /\ AnyIdle
    /\ resp' = IF i \in AstronomerIds THEN Response("read_astronomer", 200, i, {})
                                        ELSE Response("read_astronomer", 404, i, {"not found"})
    /\ UNCHANGED <<bodies, astronomers, observations, users, seq, now, conn>>

\* update_astronomer
UpdateAstronomerStatus(i, p) ==
    IF AstronomerUpdateErrors(p) # {} THEN 422
    ELSE IF i \notin AstronomerIds THEN 404
    ELSE IF ~AstronomerRowOk(ApplyUpdate(astronomers[i], p, AstronomerUpdateData(p))) THEN 500
    ELSE 200
UpdateAstronomerDetail(i, p) ==
    IF AstronomerUpdateErrors(p) # {} THEN AstronomerUpdateErrors(p)
    ELSE IF i \notin AstronomerIds THEN {"not found"}
    ELSE IF UpdateAstronomerStatus(i, p) = 500 THEN {"IntegrityError"}
    ELSE {}
\* the table after the request: the setattr loop and the commit run only when the
\* payload was valid and the row was found
MutUpdatedAstronomers(i, p) ==
    IF i \in AstronomerIds
    THEN [astronomers EXCEPT ![i] = ApplyUpdate(astronomers[i], p, AstronomerUpdateData(p))]
    ELSE astronomers
UpdatedAstronomers(i, p) ==
    IF UpdateAstronomerStatus(i, p) = 200
    THEN [astronomers EXCEPT ![i] = ApplyUpdate(astronomers[i], p, AstronomerUpdateData(p))]
    ELSE astronomers
UpdateAstronomer(i, p) ==
    /\ AnyIdle
    /\ resp' = Response("update_astronomer", UpdateAstronomerStatus(i, p), i,
                        UpdateAstronomerDetail(i, p))
    /\ astronomers' = UpdatedAstronomers(i, p)
    /\ UNCHANGED <<bodies, observations, users, seq, now, conn>>

\* the observations the ORM deletes with an astronomer (cascade="all, delete-orphan")
MutAstronomerObservations(i) == {}
AstronomerObservations(i) == {o \in DOMAIN observations : observations[o].astronomer_id = i}

\* delete_astronomer
DeleteAstronomer(i) ==
    /\ AnyIdle
    /\ IF i \notin AstronomerIds
       THEN /\ resp' = Response("delete_astronomer", 404, i, {"not found"})
            /\ UNCHANGED <<astronomers, observations>>
       ELSE /\ resp' = Response("delete_astronomer", 204, i, {})
            /\ observations' = Remove(observations, AstronomerObservations(i))
            /\ astronomers' = Remove(astronomers, {i})
    /\ UNCHANGED <<bodies, users, seq, now, conn>>

(***************************************************************************)
(* Observations.  Of the columns the model keeps the two foreign keys,     *)
(* observation_date (minutes on the clock of now) and, of the six columns  *)
(* a PUT can write, location and notes.  The table declares two indexes    *)
(* and no UNIQUE constraint.                                               *)
(***************************************************************************)
ObservationIds == DOMAIN observations
ObservationUpdateFields == {"location", "notes"}

\* func.date(observation_date): the calendar day of a timestamp
Date(dt) == dt \div 1440

\* ObservationCreate: the ids are required with ge=1, validate_observation_date
\* refuses a date after datetime.now()
ObservationCreateErrors(p) ==
    {f \in {"astronomer_id", "celestial_body_id"} : p[f] < 1}
    \cup {f \in {"observation_date"} : p.observation_date > now}
\* observation.model_dump()
ObservationDump(p) ==
    [astronomer_id |-> p.astronomer_id,
     celestial_body_id |-> p.celestial_body_id,
     observation_date |-> p.observation_date,
     location |-> IF p.location = Unset THEN NoneStr ELSE p.location,
     notes |-> IF p.notes = Unset THEN NoneStr ELSE p.notes]
\* observation_update.model_dump(exclude_unset=True): the fields of ObservationUpdate
\* the payload carries; a key the schema does not declare is ignored
MutObservationUpdateData(p) ==
    {f \in DOMAIN p : f \notin ObservationUpdateFields \/ p[f] # Unset}
ObservationUpdateData(p) == {f \in ObservationUpdateFields : p[f] # Unset}

\* the rows the duplicate SELECT of create_observation returns
DuplicateObservations(tbl, p) ==
    {o \in DOMAIN tbl : /\ tbl[o].astronomer_id = p.astronomer_id
                        /\ tbl[o].celestial_body_id = p.celestial_body_id
                        /\ Date(tbl[o].observation_date) = Date(p.observation_date)}

\* what the database checks of an observation row: the two foreign keys
ObservationRowOk(row) ==
    /\ row.astronomer_id \in AstronomerIds
    /\ row.celestial_body_id \in BodyIds

\* create_observation up to db.add: validation, the two existence checks and the
\* duplicate check (scalar_one_or_none raises MultipleResultsFound on two rows);
\* 0 stands for "no error raised"
MutCreateObservationCheck(p) ==
    IF ObservationCreateErrors(p) # {} THEN 422
    ELSE IF p.astronomer_id \notin AstronomerIds THEN 404
    ELSE IF Cardinality(DuplicateObservations(observations, p)) > 1 THEN 500
    ELSE IF DuplicateObservations(observations, p) # {} THEN 400
    ELSE 0
CreateObservationCheck(p) ==
    IF ObservationCreateErrors(p) # {} THEN 422
    ELSE IF p.astronomer_id \notin AstronomerIds THEN 404
    ELSE IF p.celestial_body_id \notin BodyIds THEN 404
    ELSE IF Cardinality(DuplicateObservations(observations, p)) > 1 THEN 500
    ELSE IF DuplicateObservations(observations, p) # {} THEN 400
    ELSE 0
CreateObservationDetail(p) ==
    IF ObservationCreateErrors(p) # {} THEN ObservationCreateErrors(p)
    ELSE IF p.astronomer_id \notin AstronomerIds THEN {"astronomer not found"}
    ELSE IF p.celestial_body_id \notin BodyIds THEN {"body not found"}
    ELSE IF Cardinality(DuplicateObservations(observations, p)) > 1
         THEN {"MultipleResultsFound"}
    ELSE {"observation exists"}

CreateObservationBegin(c, p) ==
    /\ conn[c] = Idle
    /\ CanInsert("observations", 1)
    /\ IF CreateObservationCheck(p) # 0
       THEN /\ resp' = Response("create_observation", CreateObservationCheck(p), NoId,
                                 CreateObservationDetail(p))
            /\ UNCHANGED conn
       ELSE /\ conn' = [conn EXCEPT ![c] = [op |-> "create_observation",
                                            table |-> "observations",
                                            req |-> ObservationDump(p)]]
            /\ UNCHANGED resp
    /\ UNCHANGED <<bodies, astronomers, observations, users, seq, now>>

\* create_observation from db.commit on: the INSERT
CreateObservationCommit(c) ==
    /\ conn[c].op = "create_observation"
    /\ LET i == NextId("observations")
           row == conn[c].req
       IN  /\ seq' = [seq EXCEPT !["observations"] = i]
           /\ IF ObservationRowOk(row)
              THEN /\ observations' = Extend(observations, i, row)
                   /\ resp' = Response("create_observation", 201, i, {})
              ELSE /\ UNCHANGED observations
                   /\ resp' = Response("create_observation", 500, NoId, {"IntegrityError"})
    /\ conn' = [conn EXCEPT ![c] = Idle]
    /\ UNCHANGED <<bodies, astronomers, users, now>>

\* read_observation
ReadObservation(i) ==
    /\ AnyIdle
    /\ resp' = IF i \in ObservationIds
               THEN Response("read_observation", 200, i, {})
               ELSE Response("read_observation", 404, i, {"not found"})
    /\ UNCHANGED <<bodies, astronomers, observations, users, seq, now, conn>>

\* update_observation
UpdateObservation(i, p) ==
    /\ AnyIdle
    /\ IF i \notin ObservationIds
       THEN /\ resp' = Response("update_observation", 404, i, {"not found"})
            /\ UNCHANGED observations
       ELSE /\ resp' = Response("update_observation", 200, i, {})
            /\ observations' = [observations EXCEPT
                   ![i] = ApplyUpdate(observations[i], p, ObservationUpdateData(p))]
    /\ UNCHANGED <<bodies, astronomers, users, seq, now, conn>>

\* delete_observation
DeleteObservation(i) ==
    /\ AnyIdle
    /\ IF i \notin ObservationIds
       THEN /\ resp' = Response("delete_observation", 404, i, {"not found"})
            /\ UNCHANGED observations
       ELSE /\ resp' = Response("delete_observation", 204, i, {})
            /\ observations' = Remove(observations, {i})
    /\ UNCHANGED <<bodies, astronomers, users, seq, now, conn>>

(***************************************************************************)
(* Users and authentication.  A password is its first 72 bytes and the     *)
(* rest (bcrypt reads no further); a hash is the salt and the digest of    *)
(* those 72 bytes; a token is its claims and the key that signed it.  The  *)
(* signing key is a literal of the source, so a client may present a       *)
(* token with any claims signed with it.                                   *)
(***************************************************************************)
SECRET_KEY == "SECRET_KEY"
ACCESS_TOKEN_EXPIRE_MINUTES == 30
NoTime == -1            \* Python None in last_login

UserIds == DOMAIN users
UserUpdateFields == {"email", "full_name"}

Password(text) == [first72 |-> text, rest |-> EmptyStr]
NoPassword == Password(NoneStr)         \* "password": null
UnsetPassword == Password(Unset)        \* the payload carries no password
\* len(v) < 8, as min_length=8 and the validators test it
ShortPasswords == {Password("Abc1")}
\* not any(c.isupper() ...) or not any(c.isdigit() ...)
WeakPasswords == {Password("abcdefgh")}

\* the salts bcrypt.gensalt() draws
Salts == {"s1", "s2"}
\* get_password_hash: bcrypt.hashpw(password.encode('utf-8')[:72], bcrypt.gensalt())
GetPasswordHash(password, salt) == [salt |-> salt, digest |-> password.first72]
\* verify_password: bcrypt.checkpw(plain_password.encode('utf-8')[:72], hashed_password)
VerifyPassword(plain_password, hashed_password) ==
    hashed_password.digest = plain_password.first72

\* create_access_token, as login_for_access_token calls it
MutCreateAccessToken(sub) ==
    [sub |-> sub, exp |-> now, key |-> SECRET_KEY]
CreateAccessToken(sub) ==
    [sub |-> sub, exp |-> now + ACCESS_TOKEN_EXPIRE_MINUTES, key |-> SECRET_KEY]
\* a request without an Authorization header; a string that is no JWT
NoToken == [sub |-> NoneStr, exp |-> 0, key |-> "absent"]
MalformedToken == [sub |-> NoneStr, exp |-> 0, key |-> "malformed"]

\* jwt.decode raises JWTError: not a JWT, signed with another key, or exp in the past
MutJWTError(token) == FALSE
JWTError(token) == token.key # SECRET_KEY \/ token.exp < now

UserByUsername(tbl, username) == {i \in DOMAIN tbl : tbl[i].username = username}
UserByEmail(tbl, email) == {i \in DOMAIN tbl : tbl[i].email = email}

\* get_current_user (behind oauth2_scheme); 0 stands for "the user is returned"
CurrentUserStatus(token) ==
    IF token.key = "absent" THEN 401
    ELSE IF JWTError(token) THEN 401
    ELSE IF token.sub = NoneStr THEN 401
    ELSE IF UserByUsername(users, token.sub) = {} THEN 401
    ELSE IF \E i \in UserByUsername(users, token.sub) : ~users[i].is_active THEN 403
    ELSE 0
CurrentUserDetail(token) ==
    IF token.key = "absent" THEN {"Not authenticated"}
    ELSE IF CurrentUserStatus(token) = 401 THEN {"credentials_exception"}
    ELSE {"inactive"}
\* the id of the user get_current_user returns
CurrentUser(token) == CHOOSE i \in UserByUsername(users, token.sub) : TRUE

\* what the database checks of a row written under id i into users
UserRowOk(tbl, i, row) ==
    /\ row.username # NoneStr /\ row.email # NoneStr            \* nullable=False
    /\ \A j \in DOMAIN tbl : j # i => tbl[j].username # row.username   \* unique=True
    /\ \A j \in DOMAIN tbl : j # i => tbl[j].email # row.email         \* unique=True

\* UserCreate: username min_length=3, email an EmailStr, password validated
UserCreateErrors(p) ==
    {f \in {"username"} : p.username \in {Unset, NoneStr, EmptyStr}}
    \cup {f \in {"email"} : p.email \in {Unset, NoneStr, EmptyStr}}
    \cup {f \in {"password"} :
             p.password \in {UnsetPassword, NoPassword} \cup ShortPasswords \cup WeakPasswords}

\* register_user up to db.add; 0 stands for "no error raised"
MutRegisterCheck(p) ==
    IF UserCreateErrors(p) # {} THEN 422
    ELSE 0
RegisterCheck(p) ==
    IF UserCreateErrors(p) # {} THEN 422
    ELSE IF UserByUsername(users, p.username) # {} THEN 400
    ELSE IF UserByEmail(users, p.email) # {} THEN 400
    ELSE 0
RegisterDetail(p) ==
    IF UserCreateErrors(p) # {} THEN UserCreateErrors(p)
    ELSE IF UserByUsername(users, p.username) # {} THEN {"username exists"}
    ELSE {"email exists"}
\* the User the handler builds: is_active and is_superuser are literals
MutNewUser(p, salt) ==
    [username |-> p.username,
     email |-> p.email,
     hashed_password |-> GetPasswordHash(p.password, salt),
     full_name |-> IF p.full_name = Unset THEN NoneStr ELSE p.full_name,
     is_active |-> IF "is_active" \in DOMAIN p THEN p.is_active ELSE TRUE,
     is_superuser |-> IF "is_superuser" \in DOMAIN p THEN p.is_superuser ELSE FALSE,
     last_login |-> NoTime]
NewUser(p, salt) ==
    [username |-> p.username,
     email |-> p.email,
     hashed_password |-> GetPasswordHash(p.password, salt),
     full_name |-> IF p.full_name = Unset THEN NoneStr ELSE p.full_name,
     is_active |-> TRUE,
     is_superuser |-> FALSE,
     last_login |-> NoTime]

RegisterBegin(c, p) ==
    /\ conn[c] = Idle
    /\ CanInsert("users", 1)
    /\ IF RegisterCheck(p) # 0
       THEN /\ resp' = Response("register_user", RegisterCheck(p), NoId, RegisterDetail(p))
            /\ UNCHANGED conn
       ELSE /\ conn' \in {[conn EXCEPT ![c] = [op |-> "register_user", table |-> "users",
                                                 req |-> NewUser(p, salt)]] : salt \in Salts}
            /\ UNCHANGED resp
    /\ UNCHANGED <<bodies, astronomers, observations, users, seq, now>>

\* register_user from db.commit on: the INSERT
RegisterCommit(c) ==
    /\ conn[c].op = "register_user"
    /\ LET i == NextId("users")
           row == conn[c].req
       IN  /\ seq' = [seq EXCEPT !["users"] = i]
           /\ IF UserRowOk(users, i, row)
              THEN /\ users' = Extend(users, i, row)
                   /\ resp' = Response("register_user", 201, i, {})
              ELSE /\ UNCHANGED users
                   /\ resp' = Response("register_user", 500, NoId, {"IntegrityError"})
    /\ conn' = [conn EXCEPT ![c] = Idle]
    /\ UNCHANGED <<bodies, astronomers, observations, now>>

\* login_for_access_token: "if not user or not user.is_active", then
\* "if not verify_password(...)"; the two HTTPExceptions carry the same literal detail
LoginUserDetail == {"Incorrect username or password"}
MutLoginPasswordDetail == {"Incorrect password"}
LoginPasswordDetail == {"Incorrect username or password"}
LoginUserOk(username) ==
    /\ UserByUsername(users, username) # {}
    /\ \A i \in UserByUsername(users, username) : users[i].is_active
LoginOk(username, password) ==
    /\ LoginUserOk(username)
    /\ \A i \in UserByUsername(users, username) :
          VerifyPassword(password, users[i].hashed_password)
LoginDetail(username, password) ==
    IF ~LoginUserOk(username) THEN LoginUserDetail ELSE LoginPasswordDetail
Login(username, password) ==
    /\ AnyIdle
    /\ IF LoginOk(username, password)
       THEN LET i == CHOOSE i \in UserByUsername(users, username) : TRUE
            IN  /\ users' = [users EXCEPT ![i].last_login = now]
                /\ resp' = [op |-> "login_for_access_token", status |-> 200, id |-> i,
                            detail |-> {}, access_token |-> CreateAccessToken(username)]
       ELSE /\ resp' = Response("login_for_access_token", 401, NoId,
                                 LoginDetail(username, password))
            /\ UNCHANGED users
    /\ UNCHANGED <<bodies, astronomers, observations, seq, now, conn>>

\* read_users_me
ReadMe(token) ==
    /\ AnyIdle
    /\ resp' = IF CurrentUserStatus(token) # 0
               THEN Response("read_users_me", CurrentUserStatus(token), NoId,
                             CurrentUserDetail(token))
               ELSE Response("read_users_me", 200, CurrentUser(token), {})
    /\ UNCHANGED <<bodies, astronomers, observations, users, seq, now, conn>>

\* UserUpdate: email an Optional[EmailStr], password Optional with min_length=8
UserUpdateErrors(p) ==
    {f \in {"email"} : p.email = EmptyStr}
    \cup {f \in {"password"} : p.password \in ShortPasswords}
\* user_update.model_dump(exclude_unset=True, exclude={"password"})
UserUpdateData(p) == {f \in UserUpdateFields : p[f] # Unset}
\* "if user_update.password:"
SetsPassword(p) == p.password \notin {UnsetPassword, NoPassword}

\* the row update_users_me writes
UpdatedUser(row, p, salt) ==
    [ApplyUpdate(row, p, UserUpdateData(p)) EXCEPT
        !.hashed_password = IF SetsPassword(p) THEN GetPasswordHash(p.password, salt) ELSE @]

\* update_users_me, once get_current_user has returned user i
UpdateMeStatus(i, p) ==
    IF UserUpdateErrors(p) # {} THEN 422
    ELSE IF /\ p.email \notin {Unset, NoneStr}
            /\ p.email # users[i].email
            /\ UserByEmail(users, p.email) \ {i} # {} THEN 400
    ELSE IF ~UserRowOk(users, i, ApplyUpdate(users[i], p, UserUpdateData(p))) THEN 500
    ELSE 200
UpdateMeDetail(i, p) ==
    IF UserUpdateErrors(p) # {} THEN UserUpdateErrors(p)
    ELSE IF UpdateMeStatus(i, p) = 400 THEN {"email exists"}
    ELSE IF UpdateMeStatus(i, p) = 500 THEN {"IntegrityError"}
    ELSE {}
UpdateMe(token, p) ==
    /\ AnyIdle
    /\ IF CurrentUserStatus(token) # 0
       THEN /\ resp' = Response("update_users_me", CurrentUserStatus(token), NoId,
                                 CurrentUserDetail(token))
            /\ UNCHANGED users
       ELSE LET i == CurrentUser(token)
                st == UpdateMeStatus(i, p)
            IN  /\ resp' = Response("update_users_me", st, i, UpdateMeDetail(i, p))
                /\ IF st = 200
                   THEN users' \in {[users EXCEPT ![i] = UpdatedUser(users[i], p, salt)] :
                                      salt \in Salts}
                   ELSE UNCHANGED users
    /\ UNCHANGED <<bodies, astronomers, observations, seq, now, conn>>

\* PasswordChange: old_password required, new_password validated
PasswordChangeErrors(p) ==
    {f \in {"old_password"} : p.old_password \in {UnsetPassword, NoPassword}}
    \cup {f \in {"new_password"} :
             p.new_password \in {UnsetPassword, NoPassword} \cup ShortPasswords
                                \cup WeakPasswords}

\* change_password
ChangePassword(token, p) ==
    /\ AnyIdle
    /\ IF CurrentUserStatus(token) # 0
       THEN /\ resp' = Response("change_password", CurrentUserStatus(token), NoId,
                                 CurrentUserDetail(token))
            /\ UNCHANGED users
       ELSE LET i == CurrentUser(token)
            IN  IF PasswordChangeErrors(p) # {}
                THEN /\ resp' = Response("change_password", 422, i, PasswordChangeErrors(p))
                     /\ UNCHANGED users
                ELSE IF ~VerifyPassword(p.old_password, users[i].hashed_password)
                THEN /\ resp' = Response("change_password", 400, i, {"wrong old password"})
                     /\ UNCHANGED users
                ELSE /\ resp' = Response("change_password", 200, i, {})
                     /\ users' \in {[users EXCEPT ![i].hashed_password =
                                          GetPasswordHash(p.new_password, salt)] :
                                    salt \in Salts}
    /\ UNCHANGED <<bodies, astronomers, observations, seq, now, conn>>

\* an account is switched off in the database (no route of the API writes is_active)
Deactivate(i) ==
    /\ i \in UserIds
    /\ users[i].is_active
    /\ users' = [users EXCEPT ![i].is_active = FALSE]
    /\ UNCHANGED <<bodies, astronomers, observations, seq, now, conn, resp>>

\* time passes
Tick ==
    /\ now + TickMinutes <= MaxNow
    /\ now' = now + TickMinutes
    /\ UNCHANGED <<bodies, astronomers, observations, users, seq, conn, resp>>

(***************************************************************************)
(* The catalogue of celestial bodies on its own.                           *)
(***************************************************************************)
\* nothing was inserted into table t and no request is about to
NoRowYet(t) == seq[t] = 0 /\ InFlight(t) = {}
EmptyTable == [i \in {} |-> 0]

Init ==
    /\ bodies = EmptyTable
    /\ astronomers = EmptyTable
    /\ observations = EmptyTable
    /\ users = EmptyTable
    /\ seq = [t \in Tables |-> 0]
    /\ now = 0
    /\ conn = [c \in Conns |-> Idle]
    /\ resp = NoResp

BodyCreatePayloads ==
    [name : BodyNames, type : BodyType, spectral_class : {Unset, "G"}, parent_id : {UnsetId}]
    \cup {[name |-> "Mars", type |-> "PLANET", spectral_class |-> Unset, parent_id |-> 1],
          [name |-> EmptyStr, type |-> "PLANET", spectral_class |-> "G", parent_id |-> UnsetId]}
NoBodyUpdate ==
    [name |-> Unset, type |-> Unset, spectral_class |-> Unset, parent_id |-> UnsetId]
NoAstronomerUpdate ==
    [first_name |-> Unset, last_name |-> Unset, nationality |-> Unset,
     birth_date |-> UnsetDate, death_date |-> UnsetDate]
NoObservationUpdate == [location |-> Unset, notes |-> Unset]
BodyUpdatePayloads ==
    {NoBodyUpdate,
     [NoBodyUpdate EXCEPT !.name = "Sun"],
     [NoBodyUpdate EXCEPT !.name = NoneStr],
     [NoBodyUpdate EXCEPT !.type = "PLANET"],
     [NoBodyUpdate EXCEPT !.type = "STAR"],
     [NoBodyUpdate EXCEPT !.spectral_class = "G"],
     [NoBodyUpdate EXCEPT !.spectral_class = NoneStr],
     [NoBodyUpdate EXCEPT !.type = "STAR", !.spectral_class = "G"],
     [NoBodyUpdate EXCEPT !.type = "PLANET", !.spectral_class = "G"],
     [NoBodyUpdate EXCEPT !.name = "Mars", !.type = "PLANET", !.spectral_class = NoneStr],
     [NoBodyUpdate EXCEPT !.parent_id = 1]}
BodyBatchPayloads ==
    {[name |-> "Mars", type |-> "PLANET", spectral_class |-> Unset, parent_id |-> UnsetId],
     [name |-> "Sun", type |-> "STAR", spectral_class |-> "G", parent_id |-> UnsetId],
     [name |-> "Sun", type |-> "PLANET", spectral_class |-> "G", parent_id |-> UnsetId],
     [name |-> "Mars", type |-> "STAR", spectral_class |-> Unset, parent_id |-> UnsetId]}
BodyBatches ==
    UNION {[1..n -> BodyBatchPayloads] : n \in 1..MaxBatch}

NextBodies ==
    \/ \E c \in Conns, p \in BodyCreatePayloads : CreateBodyBegin(c, p)
    \/ \E c \in Conns : CreateBodyCommit(c)
    \/ \E i \in Ids : ReadBody(i)
    \/ \E i \in Ids, p \in BodyUpdatePayloads : UpdateBody(i, p)
    \/ \E i \in Ids : DeleteBody(i)
    \/ \E ps \in BodyBatches : CreateBatchBodies(ps)

SpecBodies == Init /\ [][NextBodies]_vars

(***************************************************************************)
(* Astronomers, bodies and the observations that join them: creates, reads *)
(* and deletes.                                                            *)
(***************************************************************************)
ObsBodyPayloads ==
    {[name |-> "Mars", type |-> "PLANET", spectral_class |-> Unset, parent_id |-> UnsetId]}
AstronomerCreatePayloads ==
    {[first_name |-> "Carl", last_name |-> "Sagan", nationality |-> Unset,
      birth_date |-> UnsetDate, death_date |-> UnsetDate],
     [first_name |-> "Carl", last_name |-> Unset, nationality |-> "US",
      birth_date |-> UnsetDate, death_date |-> UnsetDate]}
\* two times of one day before now, and a time after now
ObservationDates == {-2, -1, 1}
ObservationCreatePayloads ==
    [astronomer_id : Ids, celestial_body_id : Ids, observation_date : ObservationDates,
     location : {Unset}, notes : {Unset}]
    \cup {[astronomer_id |-> 0, celestial_body_id |-> 1, observation_date |-> -1,
           location |-> "Pulkovo", notes |-> Unset]}

NextObs ==
    \/ \E p \in AstronomerCreatePayloads : CreateAstronomer(p)
    \/ \E i \in Ids : ReadAstronomer(i)
    \/ \E i \in Ids : DeleteAstronomer(i)
    \/ \E c \in Conns, p \in ObsBodyPayloads : CreateBodyBegin(c, p)
    \/ \E c \in Conns : CreateBodyCommit(c)
    \/ \E i \in Ids : ReadBody(i)
    \/ \E i \in Ids : DeleteBody(i)
    \/ \E c \in Conns, p \in ObservationCreatePayloads : CreateObservationBegin(c, p)
    \/ \E c \in Conns : CreateObservationCommit(c)
    \/ \E i \in Ids : ReadObservation(i)
    \/ \E i \in Ids : DeleteObservation(i)

SpecObs == Init /\ [][NextObs]_vars

(***************************************************************************)
(* Accounts: registration, login and the routes behind a token.            *)
(***************************************************************************)
Usernames == {"ann", "bob"}
Emails == {"ann@x.com", "bob@x.com"}
PwA == Password("Abcdef12")
PwB == Password("Zyxwvu98")

UserCreatePayloads ==
    [username : Usernames, email : Emails, full_name : {Unset}, password : {PwA}]
    \cup {[username |-> "ann", email |-> "ann@x.com", full_name |-> Unset,
           password |-> Password("abcdefgh")]}
\* tokens a client presents: signed with the key for a user, expiring as after a
\* login at 0 or at TickMinutes; signed with another key; without a subject; no JWT;
\* no token at all
LateExp == TickMinutes + ACCESS_TOKEN_EXPIRE_MINUTES
Tokens ==
    {[sub |-> "ann", exp |-> ACCESS_TOKEN_EXPIRE_MINUTES, key |-> SECRET_KEY],
     [sub |-> "ann", exp |-> LateExp, key |-> SECRET_KEY],
     [sub |-> "bob", exp |-> LateExp, key |-> SECRET_KEY],
     [sub |-> "ann", exp |-> LateExp, key |-> "another key"],
     [sub |-> NoneStr, exp |-> LateExp, key |-> SECRET_KEY],
     MalformedToken, NoToken}
NoUserUpdate == [email |-> Unset, full_name |-> Unset, password |-> UnsetPassword]
AuthUpdatePayloads ==
    {[NoUserUpdate EXCEPT !.email = "bob@x.com"],
     [NoUserUpdate EXCEPT !.email = NoneStr],
     [NoUserUpdate EXCEPT !.password = PwB]}
PasswordChangePayloads ==
    {[old_password |-> PwA, new_password |-> PwB],
     [old_password |-> PwA, new_password |-> Password("Abc1")]}

\* the tokens of the two users' sessions
SessionTokens == {token \in Tokens : token.key = SECRET_KEY /\ token.exp = LateExp
                                      /\ token.sub \in Usernames}

NextAuth ==
    \/ \E c \in Conns, p \in UserCreatePayloads : RegisterBegin(c, p)
    \/ \E c \in Conns : RegisterCommit(c)
    \/ \E username \in Usernames, password \in {PwA, PwB} : Login(username, password)
    \/ \E token \in SessionTokens, p \in AuthUpdatePayloads : UpdateMe(token, p)
    \/ \E token \in SessionTokens, p \in PasswordChangePayloads : ChangePassword(token, p)

SpecAuth == Init /\ [][NextAuth]_vars

(***************************************************************************)
(* The routes behind a token, with every kind of token and a clock.        *)
(***************************************************************************)
TokenUserPayloads ==
    {[username |-> "ann", email |-> "ann@x.com", full_name |-> Unset, password |-> PwA]}
TokenUpdatePayloads ==
    {[NoUserUpdate EXCEPT !.full_name = "Ann"],
     [NoUserUpdate EXCEPT !.password = PwB]}

NextTokens ==
    \/ \E c \in Conns, p \in TokenUserPayloads : RegisterBegin(c, p)
    \/ \E c \in Conns : RegisterCommit(c)
    \/ \E token \in Tokens : ReadMe(token)
    \/ \E token \in Tokens, p \in TokenUpdatePayloads : UpdateMe(token, p)
    \/ \E token \in Tokens, p \in PasswordChangePayloads : ChangePassword(token, p)
    \/ Tick

SpecTokens == Init /\ [][NextTokens]_vars

(***************************************************************************)
(* Login, with accounts that exist, accounts that do not and accounts      *)
(* switched off.                                                           *)
(***************************************************************************)
LoginUsernames == Usernames \cup {"eve"}
LoginPasswords == {PwA, PwB}
LoginUserPayloads ==
    {[username |-> "ann", email |-> "ann@x.com", full_name |-> Unset, password |-> PwA],
     [username |-> "bob", email |-> "bob@x.com", full_name |-> Unset, password |-> PwB]}

NextLogin ==
    \/ \E c \in Conns, p \in LoginUserPayloads : RegisterBegin(c, p)
    \/ \E c \in Conns : RegisterCommit(c)
    \/ \E username \in LoginUsernames, password \in LoginPasswords : Login(username, password)
    \/ \E i \in Ids : Deactivate(i)

SpecLogin == Init /\ [][NextLogin]_vars

(***************************************************************************)
(* Login after registration, with passwords up to and beyond the 72 bytes  *)
(* bcrypt reads: PwLongA and PwLongB agree on their first 72 bytes.        *)
(***************************************************************************)
PwLongA == [first72 |-> "Abcdef12 (72 bytes)", rest |-> "x"]
PwLongB == [first72 |-> "Abcdef12 (72 bytes)", rest |-> "y"]
PasswordUserPayloads ==
    {[username |-> "ann", email |-> "ann@x.com", full_name |-> Unset, password |-> PwA],
     [username |-> "bob", email |-> "bob@x.com", full_name |-> Unset, password |-> PwLongA]}
PasswordInputs == {PwA, PwB, PwLongA, PwLongB}

NextPasswords ==
    \/ \E c \in Conns, p \in PasswordUserPayloads : RegisterBegin(c, p)
    \/ \E c \in Conns : RegisterCommit(c)
    \/ \E username \in Usernames, password \in PasswordInputs : Login(username, password)
    \/ \E token \in SessionTokens, p \in PasswordChangePayloads : ChangePassword(token, p)

SpecPasswords == Init /\ [][NextPasswords]_vars

(***************************************************************************)
(* Creates that refer to other records: a body under a parent, an          *)
(* observation of a body by an astronomer, with records that come and go.  *)
(***************************************************************************)
RefBodyPayloads ==
    [name : BodyNames, type : {"PLANET"}, spectral_class : {Unset}, parent_id : {UnsetId, 1, 2}]
RefAstronomerPayloads ==
    {[first_name |-> "Carl", last_name |-> "Sagan", nationality |-> Unset,
      birth_date |-> UnsetDate, death_date |-> UnsetDate]}
RefObservationPayloads ==
    [astronomer_id : Ids, celestial_body_id : Ids, observation_date : {-1},
     location : {Unset}, notes : {Unset}]

NextRefs ==
    \/ \E c \in Conns, p \in RefBodyPayloads : CreateBodyBegin(c, p)
    \/ \E c \in Conns : CreateBodyCommit(c)
    \/ \E i \in Ids : DeleteBody(i)
    \/ \E p \in RefAstronomerPayloads : CreateAstronomer(p)
    \/ \E i \in Ids : DeleteAstronomer(i)
    \/ \E c \in Conns, p \in RefObservationPayloads : CreateObservationBegin(c, p)
    \/ \E c \in Conns : CreateObservationCommit(c)

SpecRefs == Init /\ [][NextRefs]_vars

(***************************************************************************)
(* Astronomers and their dates: days before the clock starts, and a day    *)
(* after it.                                                               *)
(***************************************************************************)
AstronomerDates == {-2, -1, 1}
DateCreatePayloads ==
    [first_name : {"Carl", "Karl"}, last_name : {"Sagan"}, nationality : {Unset},
     birth_date : AstronomerDates \cup {UnsetDate},
     death_date : (AstronomerDates \ {1}) \cup {UnsetDate}]
DateUpdatePayloads ==
    [first_name : {Unset}, last_name : {Unset}, nationality : {Unset},
     birth_date : AstronomerDates \cup {UnsetDate, NoDate},
     death_date : (AstronomerDates \ {1}) \cup {UnsetDate, NoDate}]

NextDates ==
    \/ \E p \in DateCreatePayloads : CreateAstronomer(p)
    \/ \E i \in Ids, p \in DateUpdatePayloads : UpdateAstronomer(i, p)
    \/ \E i \in Ids : ReadAstronomer(i)

SpecDates == Init /\ [][NextDates]_vars

(***************************************************************************)
(* Creates of bodies with the type spelled as the schema's enum and as the *)
(* model's enum spell it.                                                  *)
(***************************************************************************)
TypePayloads ==
    [name : BodyNames, type : BodyType \cup ModelBodyType, spectral_class : {Unset},
     parent_id : {UnsetId}]

NextTypes ==
    \/ \E c \in Conns, p \in TypePayloads : CreateBodyBegin(c, p)
    \/ \E c \in Conns : CreateBodyCommit(c)
    \/ \E i \in Ids : ReadBody(i)
    \/ \E i \in Ids : DeleteBody(i)

SpecTypes == Init /\ [][NextTypes]_vars

(***************************************************************************)
(* Every handler that writes, with requests it accepts and requests it     *)
(* refuses: invalid payloads, taken names, ids and references of no row.   *)
(***************************************************************************)
ErrBodyPayloads ==
    {[name |-> "Mars", type |-> "PLANET", spectral_class |-> Unset, parent_id |-> UnsetId],
     [name |-> "Sun", type |-> "PLANET", spectral_class |-> "G", parent_id |-> UnsetId],
     [name |-> "Sun", type |-> "PLANET", spectral_class |-> Unset, parent_id |-> 2]}
ErrBodyUpdatePayloads ==
    {[NoBodyUpdate EXCEPT !.type = "PLANET"],
     [NoBodyUpdate EXCEPT !.spectral_class = "G"]}
ErrBodyBatches ==
    {<<[name |-> "Mars", type |-> "PLANET", spectral_class |-> Unset, parent_id |-> UnsetId]>>,
     <<[name |-> "Sun", type |-> "PLANET", spectral_class |-> "G", parent_id |-> UnsetId]>>}
ErrAstronomerPayloads ==
    {[first_name |-> "Carl", last_name |-> "Sagan", nationality |-> Unset,
      birth_date |-> UnsetDate, death_date |-> UnsetDate],
     [first_name |-> "Carl", last_name |-> "Sagan", nationality |-> Unset,
      birth_date |-> -1, death_date |-> -2]}
ErrAstronomerUpdatePayloads ==
    {[NoAstronomerUpdate EXCEPT !.nationality = NoneStr],
     [NoAstronomerUpdate EXCEPT !.first_name = EmptyStr]}
ErrObservationPayloads ==
    [astronomer_id : {1}, celestial_body_id : Ids, observation_date : {-1, 1},
     location : {Unset}, notes : {Unset}]
ErrObservationUpdatePayloads == {[NoObservationUpdate EXCEPT !.notes = NoneStr]}
ErrUserPayloads ==
    {[username |-> "ann", email |-> "ann@x.com", full_name |-> Unset, password |-> PwA],
     [username |-> "bob", email |-> "ann@x.com", full_name |-> Unset, password |-> PwA],
     [username |-> "bob", email |-> "bob@x.com", full_name |-> Unset,
      password |-> Password("abcdefgh")]}
ErrUserUpdatePayloads ==
    {[NoUserUpdate EXCEPT !.full_name = NoneStr],
     [NoUserUpdate EXCEPT !.password = Password("Abc1")]}
ErrPasswordChangePayloads ==
    {[old_password |-> PwB, new_password |-> PwA],
     [old_password |-> PwA, new_password |-> Password("Abc1")]}
ErrTokens == {token \in SessionTokens : token.sub = "ann"}
ErrConns == {"c1"}

\* the first create of a table, and every create the handler refuses
ErrBodyBegin(c, p) ==
    /\ NoRowYet("celestial_bodies") \/ CreateBodyCheck(p) # 0
    /\ CreateBodyBegin(c, p)
ErrBatchBodies(ps) ==
    /\ NoRowYet("celestial_bodies") \/ \E k \in 1..Len(ps) : ~ValidBodyCreate(ps[k])
    /\ CreateBatchBodies(ps)
ErrAstronomer(p) ==
    /\ NoRowYet("astronomers") \/ CreateAstronomerStatus(p) # 201
    /\ CreateAstronomer(p)
ErrObservationBegin(c, p) ==
    /\ NoRowYet("observations") \/ CreateObservationCheck(p) # 0
    /\ CreateObservationBegin(c, p)
ErrRegisterBegin(c, p) ==
    /\ NoRowYet("users") \/ RegisterCheck(p) # 0
    /\ RegisterBegin(c, p)

NextErrors ==
    \/ \E c \in ErrConns, p \in ErrBodyPayloads : ErrBodyBegin(c, p)
    \/ \E c \in ErrConns : CreateBodyCommit(c)
    \/ \E ps \in ErrBodyBatches : ErrBatchBodies(ps)
    \/ \E i \in Ids, p \in ErrBodyUpdatePayloads : UpdateBody(i, p)
    \/ \E i \in Ids : DeleteBody(i)
    \/ \E p \in ErrAstronomerPayloads : ErrAstronomer(p)
    \/ \E i \in Ids, p \in ErrAstronomerUpdatePayloads : UpdateAstronomer(i, p)
    \/ \E i \in Ids : DeleteAstronomer(i)
    \/ \E c \in ErrConns, p \in ErrObservationPayloads : ErrObservationBegin(c, p)
    \/ \E c \in ErrConns : CreateObservationCommit(c)
    \/ \E i \in Ids, p \in ErrObservationUpdatePayloads : UpdateObservation(i, p)
    \/ \E i \in Ids : DeleteObservation(i)
    \/ \E c \in ErrConns, p \in ErrUserPayloads : ErrRegisterBegin(c, p)
    \/ \E c \in ErrConns : RegisterCommit(c)
    \/ \E token \in ErrTokens, p \in ErrUserUpdatePayloads : UpdateMe(token, p)
    \/ \E token \in ErrTokens, p \in ErrPasswordChangePayloads : ChangePassword(token, p)

SpecErrors == Init /\ [][NextErrors]_vars

(***************************************************************************)
(* Route dispatch. A router tries its routes in the order of their declaration and
   hands the request to the first one whose method and path match; "{}" stands for
   a path parameter, which matches any one segment. The parameter is converted to
   int only after the route is chosen, and a segment that is not an integer is
   answered 422. *)
Route(method, path, endpoint) == [method |-> method, path |-> path, endpoint |-> endpoint]
BodyRoutes ==
    << Route("POST", << >>, "create_celestial_body"),
       Route("GET", << >>, "read_celestial_bodies"),
       Route("GET", <<"{}">>, "read_celestial_body"),
       Route("PUT", <<"{}">>, "update_celestial_body"),
       Route("DELETE", <<"{}">>, "delete_celestial_body"),
       Route("GET", <<"search", "advanced">>, "search_celestial_bodies"),
       Route("GET", <<"statistics">>, "get_statistics"),
       Route("GET", <<"{}", "children">>, "get_children"),
       Route("GET", <<"{}", "observers">>, "get_observers"),
       Route("POST", <<"batch">>, "create_batch_bodies") >>
AstronomerRoutes ==
    << Route("POST", << >>, "create_astronomer"),
       Route("GET", << >>, "read_astronomers"),
       Route("GET", <<"{}">>, "read_astronomer"),
       Route("PUT", <<"{}">>, "update_astronomer"),
       Route("DELETE", <<"{}">>, "delete_astronomer"),
       Route("GET", <<"statistics">>, "get_astronomer_statistics"),
       Route("GET", <<"{}", "observations">>, "get_astronomer_observations") >>
ObservationRoutes ==
    << Route("POST", << >>, "create_observation"),
       Route("GET", << >>, "read_observations"),
       Route("GET", <<"{}">>, "read_observation"),
       Route("PUT", <<"{}">>, "update_observation"),
       Route("DELETE", <<"{}">>, "delete_observation"),
       Route("GET", <<"statistics">>, "get_observation_statistics") >>
Routers == {"celestial_bodies", "astronomers", "observations"}
Routes(t) ==
    CASE t = "celestial_bodies" -> BodyRoutes
      [] t = "astronomers" -> AstronomerRoutes
      [] t = "observations" -> ObservationRoutes
ReadEndpoint(t) ==
    CASE t = "celestial_bodies" -> "read_celestial_body"
      [] t = "astronomers" -> "read_astronomer"
      [] t = "observations" -> "read_observation"
StatisticsEndpoint(t) ==
    CASE t = "celestial_bodies" -> "get_statistics"
      [] t = "astronomers" -> "get_astronomer_statistics"
      [] t = "observations" -> "get_observation_statistics"

Matches(route, method, path) ==
    /\ route.method = method
    /\ Len(route.path) = Len(path)
    /\ \A k \in 1..Len(path) : route.path[k] \in {"{}", path[k]}
NoEndpoint == "none"
Dispatch(routes, method, path) ==
    LET m == {k \in 1..Len(routes) : Matches(routes[k], method, path)}
    IN  IF m = {} THEN NoEndpoint
        ELSE routes[CHOOSE k \in m : \A j \in m : k <= j].endpoint

\* the integers a path segment converts to: none when it is not the text of an integer
ParseInt(segment) == {i \in 0..(MaxId + 1) : ToString(i) = segment}
GetPaths == {<<ToString(i)>> : i \in 0..(MaxId + 1)} \cup {<<"statistics">>}

\* what the statistics handlers return
BodyStatistics ==
    [total |-> Cardinality(BodyIds),
     by_type |-> [v \in {bodies[i].type : i \in BodyIds} |->
                    Cardinality({i \in BodyIds : bodies[i].type = v})]]
AstronomerStatistics ==
    [total |-> Cardinality(AstronomerIds),
     by_nationality |->
        [v \in {astronomers[i].nationality : i \in AstronomerIds} \ {NoneStr} |->
            Cardinality({i \in AstronomerIds : astronomers[i].nationality = v})]]
ObservationStatistics == [total |-> Cardinality(ObservationIds)]

ReadRow(t, i) ==
    CASE t = "celestial_bodies" -> ReadBody(i)
      [] t = "astronomers" -> ReadAstronomer(i)
      [] t = "observations" -> ReadObservation(i)

\* GET <prefix of t>/<path>
Get(t, path) ==
    LET endpoint == Dispatch(Routes(t), "GET", path)
    IN  IF endpoint = ReadEndpoint(t) /\ ParseInt(path[1]) # {}
        THEN \E i \in ParseInt(path[1]) : ReadRow(t, i)
        ELSE /\ AnyIdle
             /\ resp' = IF endpoint = ReadEndpoint(t)
                         THEN Response(endpoint, 422, NoId, {"int_parsing"})
                         ELSE IF endpoint = StatisticsEndpoint(t)
                         THEN Response(endpoint, 200, NoId, {})
                         ELSE Response(endpoint, 404, NoId, {"Not Found"})
             /\ UNCHANGED <<bodies, astronomers, observations, users, seq, now, conn>>

StatsBodyPayloads ==
    [name : BodyNames, type : BodyType, spectral_class : {Unset}, parent_id : {UnsetId}]
StatsAstronomerPayloads ==
    {[first_name |-> "Carl", last_name |-> "Sagan", nationality |-> n,
      birth_date |-> UnsetDate, death_date |-> UnsetDate] : n \in {Unset, "US"}}
NextStats ==
    \/ \E c \in Conns, p \in StatsBodyPayloads : CreateBodyBegin(c, p)
    \/ \E c \in Conns : CreateBodyCommit(c)
    \/ \E p \in StatsAstronomerPayloads : CreateAstronomer(p)
    \/ \E c \in Conns, p \in RefObservationPayloads : CreateObservationBegin(c, p)
    \/ \E c \in Conns : CreateObservationCommit(c)
    \/ \E t \in Routers, path \in GetPaths : Get(t, path)

SpecStats == Init /\ [][NextStats]_vars

(* Advanced search. apply_search_filters builds one WHERE clause from the parameters
   that are supplied; the name is matched with ILIKE '%<name>%', in which '%' and
   '_' of the supplied text are wildcards. The states are tables of bodies with the
   columns the filters read, and observations of them. *)
NoNumber == -9999         \* Python None / SQL NULL in a numeric field
Chars(s) ==
    CASE s = "Mars" -> <<"M", "a", "r", "s">>
      [] s = "Sun" -> <<"S", "u", "n">>
      [] s = "AR" -> <<"A", "R">>
      [] s = "x" -> <<"x">>
      [] s = "_" -> <<"_">>
      [] s = "%" -> <<"%">>
      [] OTHER -> << >>
Lower(c) ==
    CASE c = "M" -> "m" [] c = "S" -> "s" [] c = "A" -> "a" [] c = "R" -> "r"
      [] OTHER -> c

\* s LIKE pattern, both compared in lower case (ILIKE): '%' matches any run of
\* characters, '_' any one character
RECURSIVE Like(_, _)
Like(pattern, s) ==
    IF pattern = << >> THEN s = << >>
    ELSE IF Head(pattern) = "%"
         THEN Like(Tail(pattern), s) \/ (s # << >> /\ Like(pattern, Tail(s)))
         ELSE /\ s # << >>
              /\ Head(pattern) = "_" \/ Lower(Head(pattern)) = Lower(Head(s))
              /\ Like(Tail(pattern), Tail(s))
\* CelestialBody.name.ilike(f"%{name}%")
NameILike(name, value) == Like(<<"%">> \o Chars(name) \o <<"%">>, Chars(value))
HasObservations(i) == \E o \in ObservationIds : observations[o].celestial_body_id = i

\* the filters apply_search_filters appends, as a predicate on the row with id i;
\* a comparison with NULL is not true
SearchFilters(params) ==
    {f \in {"name"} : params.name \notin {NoneStr, EmptyStr}}
    \cup {f \in {"type"} : params.type # NoneStr}
    \cup {f \in {"min_distance", "max_distance", "min_magnitude", "max_magnitude"} :
             params[f] # NoNumber}
    \cup {f \in {"spectral_class"} : params.spectral_class # NoneStr}
    \cup {f \in {"has_observations"} : params.has_observations # NoneStr}
FilterHolds(f, i, params) ==
    LET row == bodies[i]
    IN  CASE f = "name" -> NameILike(params.name, row.name)
          [] f = "type" -> row.type = params.type
          [] f = "min_distance" ->
                row.distance_from_earth # NoNumber
                /\ row.distance_from_earth >= params.min_distance
          [] f = "max_distance" ->
                row.distance_from_earth # NoNumber
                /\ row.distance_from_earth <= params.max_distance
          [] f = "min_magnitude" ->
                row.apparent_magnitude # NoNumber
                /\ row.apparent_magnitude >= params.min_magnitude
          [] f = "max_magnitude" ->
                row.apparent_magnitude # NoNumber
                /\ row.apparent_magnitude <= params.max_magnitude
          [] f = "spectral_class" -> row.spectral_class = params.spectral_class
          [] f = "has_observations" ->
                IF params.has_observations = "True" THEN HasObservations(i)
                                                    ELSE ~HasObservations(i)
ApplySearchFilters(params) ==
    {i \in BodyIds : \A f \in SearchFilters(params) : FilterHolds(f, i, params)}

\* CelestialBodySearch: the two range validators
SearchErrors(params) ==
    {f \in {"min_distance"} :
        /\ params.min_distance # NoNumber /\ params.max_distance # NoNumber
        /\ params.min_distance > params.max_distance}
    \cup {f \in {"min_magnitude"} :
        /\ params.min_magnitude # NoNumber /\ params.max_magnitude # NoNumber
        /\ params.min_magnitude > params.max_magnitude}

\* a list response: the ids of the rows returned, in the order returned
ListResponse(op, rows) == [op |-> op, status |-> 200, id |-> NoId, detail |-> {}, rows |-> rows]
\* the orders in which a query can return the rows S
Orderings(S) ==
    {q \in [1..Cardinality(S) -> S] : \A a, b \in 1..Cardinality(S) : a # b => q[a] # q[b]}

\* getattr(CelestialBody, sort_by, None): the mapped columns the rows carry, and
\* class attributes that are not columns (properties, __tablename__)
SortColumns == {"id", "name", "distance_from_earth", "apparent_magnitude"}
OtherAttributes ==
    {"parent_name", "children_count", "observation_count", "observers_list",
     "__tablename__"}
NameRank(name) == IF name = "Mars" THEN 1 ELSE 2
NullRank == 10000         \* PostgreSQL orders NULL after every value
SortKey(i, column) ==
    CASE column = "id" -> i
      [] column = "name" -> NameRank(bodies[i].name)
      [] OTHER -> IF bodies[i][column] = NoNumber THEN NullRank ELSE bodies[i][column]
Sorts(sort_by) == sort_by \notin {NoneStr, EmptyStr} /\ sort_by \in SortColumns
SortRaises(sort_by) == sort_by \notin {NoneStr, EmptyStr} /\ sort_by \in OtherAttributes
Ordered(q, sort_by, sort_order) ==
    \A a, b \in DOMAIN q :
        a < b => IF sort_order = "desc"
                 THEN SortKey(q[a], sort_by) >= SortKey(q[b], sort_by)
                 ELSE SortKey(q[a], sort_by) <= SortKey(q[b], sort_by)

\* search_celestial_bodies; a CelestialBodySearch that its validators refuse is
\* raised inside the dependency (422 or 500, by the version of the framework)
Search(params, sort_by, sort_order) ==
    /\ AnyIdle
    /\ IF SearchErrors(params) # {}
       THEN \E st \in {422, 500} :
                resp' = Response("search_celestial_bodies", st, NoId, SearchErrors(params))
       ELSE IF SortRaises(sort_by)
       THEN resp' = Response("search_celestial_bodies", 500, NoId, {"AttributeError"})
       ELSE \E q \in Orderings(ApplySearchFilters(params)) :
                /\ Sorts(sort_by) => Ordered(q, sort_by, sort_order)
                /\ resp' = ListResponse("search_celestial_bodies", q)
    /\ UNCHANGED <<bodies, astronomers, observations, users, seq, now, conn>>

SearchRows ==
    {[name |-> n, type |-> t, spectral_class |-> IF t = "STAR" THEN "G" ELSE NoneStr,
      parent_id |-> NoId, distance_from_earth |-> d, apparent_magnitude |-> m] :
        n \in BodyNames, t \in BodyType, d \in {NoNumber, 5}, m \in {NoNumber, 2}}
SearchTables ==
    {EmptyTable}
    \cup {<<r>> : r \in SearchRows}
    \cup {<<r1, r2>> : r1 \in {r \in SearchRows : r.name = "Mars"},
                        r2 \in {r \in SearchRows : r.name = "Sun"}}
SearchObservation ==
    [astronomer_id |-> 1, celestial_body_id |-> 1, observation_date |-> -1,
     location |-> NoneStr, notes |-> NoneStr]
SearchAstronomer ==
    [first_name |-> "Carl", last_name |-> "Sagan", nationality |-> NoneStr,
     birth_date |-> NoDate, death_date |-> NoDate]
InitSearch ==
    /\ bodies \in SearchTables
    /\ \/ astronomers = EmptyTable /\ observations = EmptyTable
       \/ /\ bodies # EmptyTable
          /\ astronomers = <<SearchAstronomer>>
          /\ observations = <<SearchObservation>>
    /\ users = EmptyTable
    /\ seq = [t \in Tables |->
                CASE t = "celestial_bodies" -> Len(bodies)
                  [] t = "astronomers" -> Len(astronomers)
                  [] t = "observations" -> Len(observations)
                  [] OTHER -> 0]
    /\ now = 0
    /\ conn = [c \in Conns |-> Idle]
    /\ resp = NoResp

SearchNames == {EmptyStr, "AR", "x", "_", "%"}
\* a search that supplies nothing
NoSearchParams ==
    [name |-> NoneStr, type |-> NoneStr, min_distance |-> NoNumber,
     max_distance |-> NoNumber, min_magnitude |-> NoNumber, max_magnitude |-> NoNumber,
     spectral_class |-> NoneStr, has_observations |-> NoneStr]
\* every combination of supplied and absent parameters, and searches that vary the
\* value of one parameter
SearchParams ==
    [name : {NoneStr, "AR"}, type : {NoneStr, "STAR"},
     min_distance : {NoNumber, 3}, max_distance : {NoNumber, 7},
     min_magnitude : {NoNumber, 1}, max_magnitude : {NoNumber, 3},
     spectral_class : {NoneStr} \cup SpectralClass,
     has_observations : {NoneStr, "True"}]
    \cup {[NoSearchParams EXCEPT !.name = n] : n \in SearchNames}
    \cup {[NoSearchParams EXCEPT !.type = t] : t \in BodyType}
    \cup {[NoSearchParams EXCEPT !.min_distance = d] : d \in {0, 6}}
    \cup {[NoSearchParams EXCEPT !.max_distance = d] : d \in {0, 4}}
    \cup {[NoSearchParams EXCEPT !.min_distance = 6, !.max_distance = 4]}
    \cup {[NoSearchParams EXCEPT !.min_magnitude = 3],
          [NoSearchParams EXCEPT !.max_magnitude = 1],
          [NoSearchParams EXCEPT !.min_magnitude = 3, !.max_magnitude = 1],
          [NoSearchParams EXCEPT !.has_observations = "False"]}
SortParams ==
    {NoneStr, EmptyStr, "name", "distance_from_earth", "parent_name", "__tablename__", "rank"}
NextSearch ==
    \/ \E params \in SearchParams : Search(params, NoneStr, "asc")
    \/ \E sort_by \in SortParams, sort_order \in {"asc", "desc"} :
            Search(NoSearchParams, sort_by, sort_order)

SpecSearch == InitSearch /\ [][NextSearch]_vars

(* The list endpoints: filters, then OFFSET skip LIMIT limit. skip and limit are
   Python integers; Query(ge=0) puts no upper bound on skip, and OFFSET takes a
   database integer. *)
OutOfRange == -7777       \* stands for an integer above the database's integer range
Page(q, skip, limit) ==
    [k \in 1..(IF Len(q) - skip < limit
               THEN (IF Len(q) - skip < 0 THEN 0 ELSE Len(q) - skip)
               ELSE limit) |-> q[skip + k]]
\* skip: int = Query(0, ge=0), limit: int = Query(10, ge=1, le=100)
PageErrors(skip, limit) ==
    {f \in {"skip"} : skip # OutOfRange /\ skip < 0}
    \cup {f \in {"limit"} : limit < 1 \/ limit > 100}

\* read_celestial_bodies
ListedBodies(search, body_type, min_distance, max_distance) ==
    {i \in BodyIds :
        /\ search \notin {NoneStr, EmptyStr} => NameILike(search, bodies[i].name)
        /\ body_type # NoneStr => bodies[i].type = body_type
        /\ min_distance # NoNumber =>
              bodies[i].distance_from_earth # NoNumber
              /\ bodies[i].distance_from_earth >= min_distance
        /\ max_distance # NoNumber =>
              bodies[i].distance_from_earth # NoNumber
              /\ bodies[i].distance_from_earth <= max_distance}
ReadBodies(skip, limit, search, body_type, min_distance, max_distance) ==
    /\ AnyIdle
    /\ IF PageErrors(skip, limit) # {}
       THEN resp' = Response("read_celestial_bodies", 422, NoId, PageErrors(skip, limit))
       ELSE IF skip = OutOfRange
       THEN resp' = Response("read_celestial_bodies", 500, NoId, {"DBAPIError"})
       ELSE \E q \in Orderings(ListedBodies(search, body_type, min_distance, max_distance)) :
                resp' = ListResponse("read_celestial_bodies", Page(q, skip, limit))
    /\ UNCHANGED <<bodies, astronomers, observations, users, seq, now, conn>>

\* read_observations: "if astronomer_id:" skips the filter for None and for 0
ListedObservations(astronomer_id, celestial_body_id) ==
    {o \in ObservationIds :
        /\ astronomer_id # NoId => observations[o].astronomer_id = astronomer_id
        /\ celestial_body_id # NoId => observations[o].celestial_body_id = celestial_body_id}
ByDateDesc(q) ==
    \A a, b \in DOMAIN q :
        a < b => observations[q[a]].observation_date >= observations[q[b]].observation_date
ReadObservations(skip, limit, astronomer_id, celestial_body_id) ==
    /\ AnyIdle
    /\ IF PageErrors(skip, limit) # {}
       THEN resp' = Response("read_observations", 422, NoId, PageErrors(skip, limit))
       ELSE IF skip = OutOfRange
       THEN resp' = Response("read_observations", 500, NoId, {"DBAPIError"})
       ELSE \E q \in Orderings(ListedObservations(astronomer_id, celestial_body_id)) :
                /\ ByDateDesc(q)
                /\ resp' = ListResponse("read_observations", Page(q, skip, limit))
    /\ UNCHANGED <<bodies, astronomers, observations, users, seq, now, conn>>

Skips == {-1, 0, 1, 2, OutOfRange}
Limits == {0, 1, 100, 101}
ListDistances == {NoNumber, 5, 10}
NextList ==
    \/ \E skip \in Skips, limit \in Limits, search \in {NoneStr, "AR"},
          body_type \in {NoneStr, "STAR"}, min_distance, max_distance \in ListDistances :
            ReadBodies(skip, limit, search, body_type, min_distance, max_distance)
    \/ \E skip \in Skips, limit \in Limits, astronomer_id, celestial_body_id \in {NoId, 1, 2} :
            ReadObservations(skip, limit, astronomer_id, celestial_body_id)

SpecList == InitSearch /\ [][NextList]_vars

(* general_exception_handler: the JSON body of a 500 answer. In a 500 response of
   this model resp.detail holds str(exc), the text of the exception that was raised. *)
GenericDetail == "Internal server error"
GeneralExceptionHandler(exc) ==
    [status_code |-> 500, content |-> [detail |-> GenericDetail, message |-> exc]]
\* the body sent for a 500 response r
ErrorContent(r) == {GeneralExceptionHandler(exc).content : exc \in r.detail}

(* Astronomers by name: creates, renames and deletes. No constraint of the table
   keeps (first_name, last_name) unique. *)
FirstNames == {"Carl", "Edwin"}
LastNames == {"Sagan", "Hubble"}
NamedAstronomerPayloads ==
    {[first_name |-> n, last_name |-> l, nationality |-> Unset,
      birth_date |-> UnsetDate, death_date |-> UnsetDate] : n \in FirstNames, l \in LastNames}
RenamePayloads == {[NoAstronomerUpdate EXCEPT !.first_name = n] : n \in FirstNames}
NextNames ==
    \/ \E p \in NamedAstronomerPayloads : CreateAstronomer(p)
    \/ \E i \in Ids, p \in RenamePayloads : UpdateAstronomer(i, p)
    \/ \E i \in Ids : DeleteAstronomer(i)

SpecNames == Init /\ [][NextNames]_vars

(* Parent links: creates, batch creates and updates that name a parent, and deletes
   of bodies that are parents. *)
ParentIds == {UnsetId} \cup Ids
ParentBodyPayloads ==
    [name : BodyNames, type : {"PLANET"}, spectral_class : {Unset}, parent_id : ParentIds]
ParentUpdatePayloads ==
    {[NoBodyUpdate EXCEPT !.parent_id = i] : i \in {NoId} \cup Ids}
ParentBatches == UNION {[1..n -> ParentBodyPayloads] : n \in 1..MaxBatch}
NextParents ==
    \/ \E c \in Conns, p \in ParentBodyPayloads : CreateBodyBegin(c, p)
    \/ \E c \in Conns : CreateBodyCommit(c)
    \/ \E i \in Ids, p \in ParentUpdatePayloads : UpdateBody(i, p)
    \/ \E i \in Ids : DeleteBody(i)
    \/ \E ps \in ParentBatches : CreateBatchBodies(ps)

SpecParents == Init /\ [][NextParents]_vars

(* PUT /observations/{id} with payloads that also carry keys ObservationUpdate does
   not declare. *)
FrameExtraKeys == [astronomer_id |-> 2, celestial_body_id |-> 2, observation_date |-> -5]
FramePayloads ==
    {[f \in DOMAIN u \cup DOMAIN FrameExtraKeys |->
         IF f \in DOMAIN u THEN u[f] ELSE FrameExtraKeys[f]] :
        u \in {NoObservationUpdate, [NoObservationUpdate EXCEPT !.notes = "moved"]}}
    \cup {[NoObservationUpdate EXCEPT !.location = "Pulkovo"]}
FrameBodyPayloads ==
    [name : BodyNames, type : {"PLANET"}, spectral_class : {Unset}, parent_id : {UnsetId}]
FrameAstronomerPayloads ==
    {[first_name |-> n, last_name |-> "Sagan", nationality |-> Unset,
      birth_date |-> UnsetDate, death_date |-> UnsetDate] : n \in FirstNames}
FrameObservationPayloads ==
    {[astronomer_id |-> 1, celestial_body_id |-> 1, observation_date |-> -1,
      location |-> Unset, notes |-> Unset]}
NextFrame ==
    \/ \E c \in Conns, p \in FrameBodyPayloads : CreateBodyBegin(c, p)
    \/ \E c \in Conns : CreateBodyCommit(c)
    \/ \E p \in FrameAstronomerPayloads : CreateAstronomer(p)
    \/ \E c \in Conns, p \in FrameObservationPayloads : CreateObservationBegin(c, p)
    \/ \E c \in Conns : CreateObservationCommit(c)
    \/ \E i \in Ids, p \in FramePayloads : UpdateObservation(i, p)

SpecFrame == Init /\ [][NextFrame]_vars

(* Registration and the routes behind a token, with payloads that also carry the
   two flags of the account. *)
FlagKeys == [is_active |-> FALSE, is_superuser |-> TRUE]
WithFlags(p) ==
    [f \in DOMAIN p \cup DOMAIN FlagKeys |-> IF f \in DOMAIN p THEN p[f] ELSE FlagKeys[f]]
FlagUserPayloads ==
    {WithFlags([username |-> "ann", email |-> "ann@x.com", full_name |-> Unset,
                password |-> PwA]),
     [username |-> "bob", email |-> "bob@x.com", full_name |-> "Bob", password |-> PwA]}
FlagUpdatePayloads ==
    {WithFlags([NoUserUpdate EXCEPT !.full_name = "Root"]),
     WithFlags([NoUserUpdate EXCEPT !.password = PwB]),
     [NoUserUpdate EXCEPT !.email = "bob@x.com"]}
NextFlags ==
    \/ \E c \in Conns, p \in FlagUserPayloads : RegisterBegin(c, p)
    \/ \E c \in Conns : RegisterCommit(c)
    \/ \E username \in Usernames, password \in {PwA, PwB} : Login(username, password)
    \/ \E token \in SessionTokens, p \in FlagUpdatePayloads : UpdateMe(token, p)
    \/ \E token \in SessionTokens, p \in PasswordChangePayloads : ChangePassword(token, p)

SpecFlags == Init /\ [][NextFlags]_vars

(* Sessions: tokens issued by login, presented while the account's password and
   email are changed and the clock advances. *)
SessionUserPayloads ==
    {[username |-> "ann", email |-> "ann@x.com", full_name |-> Unset, password |-> PwA]}
SessionUpdatePayloads ==
    {[NoUserUpdate EXCEPT !.email = "ann@y.com"],
     [NoUserUpdate EXCEPT !.password = PwB]}
\* the tokens login can issue at the two readings of the clock
LoginTokens ==
    {[sub |-> u, exp |-> e, key |-> SECRET_KEY] :
        u \in Usernames, e \in {ACCESS_TOKEN_EXPIRE_MINUTES, LateExp}}
NextSessions ==
    \/ \E c \in Conns, p \in SessionUserPayloads : RegisterBegin(c, p)
    \/ \E c \in Conns : RegisterCommit(c)
    \/ \E username \in Usernames : Login(username, PwA)
    \/ \E token \in LoginTokens : ReadMe(token)
    \/ \E token \in LoginTokens, p \in SessionUpdatePayloads : UpdateMe(token, p)
    \/ \E token \in LoginTokens, p \in PasswordChangePayloads : ChangePassword(token, p)
    \/ Tick

SpecSessions == Init /\ [][NextSessions]_vars

(* The four partial updates, each on the one record of its table: a body,  *)
(* an astronomer, an observation of that body by that astronomer, and the  *)
(* account of the user behind the token.                                   *)
(***************************************************************************)
PutBodyPayloads ==
    {NoBodyUpdate,
     [NoBodyUpdate EXCEPT !.name = "Sun"],
     [NoBodyUpdate EXCEPT !.type = "STAR", !.parent_id = 1],
     [NoBodyUpdate EXCEPT !.name = "Mars", !.type = "PLANET", !.spectral_class = NoneStr,
                          !.parent_id = NoId],
     [NoBodyUpdate EXCEPT !.name = NoneStr]}
PutAstronomerPayloads ==
    {NoAstronomerUpdate,
     [NoAstronomerUpdate EXCEPT !.nationality = "US", !.death_date = -1],
     [NoAstronomerUpdate EXCEPT !.first_name = "Karl", !.nationality = NoneStr],
     [NoAstronomerUpdate EXCEPT !.last_name = NoneStr],
     [NoAstronomerUpdate EXCEPT !.first_name = EmptyStr]}
PutObservationPayloads ==
    {NoObservationUpdate,
     [NoObservationUpdate EXCEPT !.notes = "clear sky"],
     [NoObservationUpdate EXCEPT !.location = NoneStr, !.notes = "clear sky"]}
PutObservationCreatePayloads ==
    {[astronomer_id |-> 1, celestial_body_id |-> 1, observation_date |-> -1,
      location |-> "Pulkovo", notes |-> Unset]}
PutUserPayloads ==
    {NoUserUpdate,
     [NoUserUpdate EXCEPT !.full_name = "Ann"],
     [NoUserUpdate EXCEPT !.email = "bob@x.com", !.full_name = "Ann"],
     [NoUserUpdate EXCEPT !.password = PwB],
     [NoUserUpdate EXCEPT !.password = NoPassword],
     [NoUserUpdate EXCEPT !.password = Password("Abc1")]}

FirstBodyBegin(c, p) == NoRowYet("celestial_bodies") /\ CreateBodyBegin(c, p)
FirstAstronomer(p) == NoRowYet("astronomers") /\ CreateAstronomer(p)
FirstObservationBegin(c, p) == NoRowYet("observations") /\ CreateObservationBegin(c, p)
FirstRegisterBegin(c, p) == NoRowYet("users") /\ RegisterBegin(c, p)

NextPut ==
    \/ \E c \in Conns, p \in ObsBodyPayloads : FirstBodyBegin(c, p)
    \/ \E c \in Conns : CreateBodyCommit(c)
    \/ \E i \in Ids, p \in PutBodyPayloads : UpdateBody(i, p)
    \/ \E p \in AstronomerCreatePayloads : FirstAstronomer(p)
    \/ \E i \in Ids, p \in PutAstronomerPayloads : UpdateAstronomer(i, p)
    \/ \E c \in Conns, p \in PutObservationCreatePayloads : FirstObservationBegin(c, p)
    \/ \E c \in Conns : CreateObservationCommit(c)
    \/ \E i \in Ids, p \in PutObservationPayloads : UpdateObservation(i, p)
    \/ \E c \in Conns, p \in TokenUserPayloads : FirstRegisterBegin(c, p)
    \/ \E c \in Conns : RegisterCommit(c)
    \/ \E token \in SessionTokens, p \in PutUserPayloads : UpdateMe(token, p)

SpecPut == Init /\ [][NextPut]_vars

(***************************************************************************)
(* The claims.                                                             *)
(***************************************************************************)
Tables_Unchanged == UNCHANGED <<bodies, astronomers, observations, users>>

\* C1: no two celestial bodies ever have the same name; a valid POST /celestial-bodies
\* whose name is the name of an existing body is answered 400 and adds no row; a create
\* whose INSERT the database accepts is answered 201 and its row has a newly generated id.
C1_UniqueNames == \A i, j \in BodyIds : i # j => bodies[i].name # bodies[j].name
C1_DuplicateRejected ==
    \A c \in Conns :
        (conn[c] = Idle /\ (conn'[c] # Idle \/ resp'.op = "create_celestial_body")) =>
        \A p \in BodyCreatePayloads :
            (BodyByName(bodies, p.name) # {} /\ ValidBodyCreate(p) /\ CreateBodyBegin(c, p))
            => /\ resp' = Response("create_celestial_body", 400, NoId, {"name exists"})
               /\ Tables_Unchanged
               /\ conn' = conn
C1_FirstCreate ==
    \A c \in Conns :
        (conn[c].op = "create_celestial_body" /\ conn'[c] = Idle
            /\ BodyByName(bodies, conn[c].req.name) = {}
            /\ conn[c].req.parent_id \in BodyIds \cup {NoId}
            /\ CreateBodyCommit(c))
        => /\ resp'.status = 201
           /\ resp'.id > seq["celestial_bodies"]
           /\ DOMAIN bodies' = BodyIds \cup {resp'.id}
           /\ bodies'[resp'.id] = conn[c].req
           /\ \A j \in BodyIds : bodies'[j] = bodies[j]
C7_SpectralClassOnlyForStars ==
    \A i \in BodyIds : bodies[i].spectral_class # NoneStr => bodies[i].type = "STAR"

\* C8: a create, batch create or update request that supplies a non-null spectral_class
\* for a body whose type is not star is answered 422 naming spectral_class and changes
\* no stored record.
SuppliesSpectralClass(p) == p.spectral_class \notin {Unset, NoneStr}
C8_RejectedResponse(op) ==
    /\ resp'.op = op
    /\ resp'.status = 422
    /\ "spectral_class" \in resp'.detail
    /\ Tables_Unchanged
    /\ conn' = conn
C8_Rejected ==
    /\ \A c \in Conns :
          (conn[c] = Idle /\ (conn'[c] # Idle \/ resp'.op = "create_celestial_body")) =>
          \A p \in BodyCreatePayloads :
              (SuppliesSpectralClass(p) /\ p.type # "STAR" /\ CreateBodyBegin(c, p))
              => C8_RejectedResponse("create_celestial_body")
    /\ resp'.op = "create_batch_bodies" =>
          \A ps \in BodyBatches :
              ((\E k \in 1..Len(ps) : SuppliesSpectralClass(ps[k]) /\ ps[k].type # "STAR")
                 /\ CreateBatchBodies(ps))
              => C8_RejectedResponse("create_batch_bodies")
    /\ (resp'.op = "update_celestial_body" /\ resp'.id \in BodyIds) =>
          \A p \in BodyUpdatePayloads :
              (SuppliesSpectralClass(p)
                 /\ (IF p.type = Unset THEN bodies[resp'.id].type ELSE p.type) # "STAR"
                 /\ UpdateBody(resp'.id, p))
              => C8_RejectedResponse("update_celestial_body")
C8_Theorem == [][C8_Rejected]_vars
C8_Witness ==
    /\ resp.op = "update_celestial_body"
    /\ resp.status = 422
    /\ resp.detail = {"spectral_class"}
    /\ resp.id \in BodyIds
    /\ bodies[resp.id].type = "PLANET"

\* C2: no two observation rows have the same astronomer_id, the same celestial_body_id
\* and an observation_date on the same calendar day, also when create requests of two
\* connections interleave between the duplicate check and the insert.
C2_NoDuplicateObservations ==
    \A o1, o2 \in ObservationIds :
        (/\ o1 # o2
         /\ observations[o1].astronomer_id = observations[o2].astronomer_id
         /\ observations[o1].celestial_body_id = observations[o2].celestial_body_id)
        => Date(observations[o1].observation_date) # Date(observations[o2].observation_date)

\* C4: every observation references an existing astronomer and an existing body; a
\* successful DELETE of an astronomer or of a body removes exactly the observations
\* that reference it.
C4_ForeignKeys ==
    \A o \in ObservationIds :
        /\ observations[o].astronomer_id \in AstronomerIds
        /\ observations[o].celestial_body_id \in BodyIds
C4_DeleteCascades ==
    /\ (resp'.op = "delete_astronomer" /\ resp'.status = 204) =>
          /\ resp'.id \notin DOMAIN astronomers'
          /\ observations' = Remove(observations,
                 {o \in ObservationIds : observations[o].astronomer_id = resp'.id})
    /\ (resp'.op = "delete_celestial_body" /\ resp'.status = 204) =>
          /\ resp'.id \notin DOMAIN bodies'
          /\ observations' = Remove(observations,
                 {o \in ObservationIds : observations[o].celestial_body_id = resp'.id})
C4_Theorem == []C4_ForeignKeys /\ [][C4_DeleteCascades]_vars
C4_Witness ==
    /\ resp.op = "delete_astronomer"
    /\ resp.status = 204
    /\ seq["observations"] > 0
    /\ ObservationIds = {}
    /\ BodyIds # {}

\* C5: for bodies, astronomers and observations, once DELETE of an id was answered 204,
\* every later GET of that id is answered 404, whatever requests come in between.
C5_GetAfterDelete(delete, read, i) ==
    []((resp.op = delete /\ resp.status = 204 /\ resp.id = i)
         => []((resp.op = read /\ resp.id = i) => resp.status = 404))
C5_Theorem ==
    \A i \in Ids :
        /\ C5_GetAfterDelete("delete_celestial_body", "read_celestial_body", i)
        /\ C5_GetAfterDelete("delete_astronomer", "read_astronomer", i)
        /\ C5_GetAfterDelete("delete_observation", "read_observation", i)
C5_Witness ==
    /\ resp = Response("read_celestial_body", 404, 1, {"not found"})
    /\ seq["celestial_bodies"] > 1
    /\ BodyIds # {}

\* C3: no two users have the same username and no two users have the same email, through
\* POST /auth/register and PUT /auth/me; a valid register request whose username or
\* email belongs to an existing user is answered 400 and adds no user.
C3_UniqueUsers ==
    \A i, j \in UserIds :
        i # j => /\ users[i].username # users[j].username
                 /\ users[i].email # users[j].email
C3_DuplicateRejected ==
    \A c \in Conns :
        (conn[c] = Idle /\ (conn'[c] # Idle \/ resp'.op = "register_user")) =>
        \A p \in UserCreatePayloads :
            (/\ UserCreateErrors(p) = {}
             /\ UserByUsername(users, p.username) # {} \/ UserByEmail(users, p.email) # {}
             /\ RegisterBegin(c, p))
            => /\ resp'.op = "register_user"
               /\ resp'.status = 400
               /\ Tables_Unchanged
               /\ conn' = conn
C3_Theorem == []C3_UniqueUsers /\ [][C3_DuplicateRejected]_vars
C3_Witness ==
    /\ resp = Response("register_user", 400, NoId, {"email exists"})
    /\ UserIds # {}

\* C9: a step changes a user's stored password hash only if it is a change-password
\* request of that user answered 200, which verified the old password against the hash.
C9_HashChange ==
    \A i \in UserIds :
        (i \in DOMAIN users' /\ users'[i].hashed_password # users[i].hashed_password)
        => /\ resp'.op = "change_password"
           /\ resp'.status = 200
           /\ resp'.id = i
           /\ \E p \in PasswordChangePayloads, token \in SessionTokens :
                 /\ ChangePassword(token, p)
                 /\ VerifyPassword(p.old_password, users[i].hashed_password)
C9_OnlyWithOldPassword == [][C9_HashChange]_vars

\* C10: a protected route answers other than 401 or 403 only to a token signed with
\* the key, not expired, whose subject is the username of an active user; a token that
\* is expired, signed with another key or no JWT gets the one 401 response of
\* get_current_user and the step changes nothing else.
ProtectedStep(token) ==
    \/ resp'.op = "read_users_me" /\ ReadMe(token)
    \/ resp'.op = "update_users_me" /\ \E p \in TokenUpdatePayloads : UpdateMe(token, p)
    \/ resp'.op = "change_password" /\ \E p \in PasswordChangePayloads : ChangePassword(token, p)
ValidToken(token) ==
    /\ token.key = SECRET_KEY
    /\ token.exp >= now
    /\ \E i \in UserIds : users[i].username = token.sub /\ users[i].is_active
C10_Protected ==
    resp'.op \in {"read_users_me", "update_users_me", "change_password"} =>
    \A token \in Tokens :
        ProtectedStep(token) =>
            /\ resp'.status \notin {401, 403} => ValidToken(token)
            /\ (token.key # "absent" /\ (token.key # SECRET_KEY \/ token.exp < now)) =>
                  /\ resp'.status = 401
                  /\ resp'.detail = {"credentials_exception"}
                  /\ resp'.id = NoId
                  /\ UNCHANGED <<bodies, astronomers, observations, users, seq, now, conn>>
C10_Theorem == [][C10_Protected]_vars
C10_Witness ==
    /\ resp = Response("change_password", 401, NoId, {"credentials_exception"})
    /\ now > ACCESS_TOKEN_EXPIRE_MINUTES
    /\ UserByUsername(users, "ann") # {}

\* C6: a PUT on a celestial body, an astronomer, an observation or the current user
\* that is answered 200 leaves every field its payload does not carry as it was stored
\* and stores the supplied value in every field the payload carries (for the user's
\* password: a hash that verifies the supplied password).
C6_Frame(before, after, p, fields) ==
    \A f \in fields :
        IF p[f] = Unset THEN after[f] = before[f] ELSE after[f] = p[f]
C6_Ok(op) == resp'.op = op /\ resp'.status = 200
C6_PartialPut ==
    /\ C6_Ok("update_celestial_body") =>
          \A p \in PutBodyPayloads :
              UpdateBody(resp'.id, p) =>
                  /\ C6_Frame(bodies[resp'.id], bodies'[resp'.id], p,
                              {"name", "type", "spectral_class"})
                  /\ bodies'[resp'.id].parent_id =
                        IF p.parent_id = UnsetId THEN bodies[resp'.id].parent_id
                                                 ELSE p.parent_id
    /\ C6_Ok("update_astronomer") =>
          \A p \in PutAstronomerPayloads :
              UpdateAstronomer(resp'.id, p) =>
                  /\ C6_Frame(astronomers[resp'.id], astronomers'[resp'.id], p,
                              {"first_name", "last_name", "nationality"})
                  /\ \A f \in AstronomerDateFields :
                        astronomers'[resp'.id][f] =
                            IF p[f] = UnsetDate THEN astronomers[resp'.id][f] ELSE p[f]
    /\ C6_Ok("update_observation") =>
          \A p \in PutObservationPayloads :
              UpdateObservation(resp'.id, p) =>
                  /\ C6_Frame(observations[resp'.id], observations'[resp'.id], p,
                              {"location", "notes"})
                  /\ \A f \in {"astronomer_id", "celestial_body_id", "observation_date"} :
                        observations'[resp'.id][f] = observations[resp'.id][f]
    /\ C6_Ok("update_users_me") =>
          \A p \in PutUserPayloads, token \in SessionTokens :
              UpdateMe(token, p) =>
                  /\ C6_Frame(users[resp'.id], users'[resp'.id], p, {"email", "full_name"})
                  /\ \A f \in {"username", "is_active", "is_superuser", "last_login"} :
                        users'[resp'.id][f] = users[resp'.id][f]
                  /\ IF p.password \in {UnsetPassword, NoPassword}
                     THEN users'[resp'.id].hashed_password = users[resp'.id].hashed_password
                     ELSE VerifyPassword(p.password, users'[resp'.id].hashed_password)
C11_FailedLogin ==
    \A username \in LoginUsernames, password \in LoginPasswords :
        Login(username, password) =>
            /\ resp'.status = 200 <=> LoginOk(username, password)
            /\ resp'.status # 200 =>
                  /\ resp' = Response("login_for_access_token", 401, NoId, LoginUserDetail)
                  /\ Tables_Unchanged
C11_Theorem == [][C11_FailedLogin]_vars
C11_Witness ==
    /\ resp = Response("login_for_access_token", 401, NoId, LoginUserDetail)
    /\ \E i \in UserIds : ~users[i].is_active
    /\ \E i \in UserIds : users[i].is_active /\ users[i].last_login # NoTime
    /\ \E username \in LoginUsernames : UserByUsername(users, username) = {}

\* C12: while a user's stored hash is still a hash of the password p the user registered
\* with, POST /auth/token with the username and p is answered 200 with a token whose
\* subject is the username, and with the username and any other password is answered 401.
C12_LoginAfterRegister ==
    \A p \in PasswordUserPayloads, password \in PasswordInputs :
        \A i \in UserByUsername(users, p.username) :
            (/\ \E salt \in Salts :
                   users[i].hashed_password = GetPasswordHash(p.password, salt)
             /\ Login(p.username, password))
            => IF password = p.password
               THEN /\ resp'.status = 200
                    /\ resp'.access_token.sub = p.username
               ELSE resp'.status = 401
C12_Theorem == [][C12_LoginAfterRegister]_vars

\* C13 as stated: a schema-valid POST /celestial-bodies whose parent_id is the id of no
\* body, and a schema-valid POST /observations whose astronomer_id or celestial_body_id
\* is the id of no record, is answered 404 and persists nothing.
C13_MissingParent(p) == BodyDump(p).parent_id # NoId /\ BodyDump(p).parent_id \notin BodyIds
C13_MissingReference(p) ==
    p.astronomer_id \notin AstronomerIds \/ p.celestial_body_id \notin BodyIds
C13_Nothing == Tables_Unchanged /\ conn' = conn /\ seq' = seq
C13_BodyStep(status) ==
    \A c \in Conns :
        (conn[c] = Idle /\ (conn'[c] # Idle \/ resp'.op = "create_celestial_body")) =>
        \A p \in RefBodyPayloads :
            (ValidBodyCreate(p) /\ C13_MissingParent(p) /\ CreateBodyBegin(c, p))
            => /\ resp'.op = "create_celestial_body"
               /\ resp'.status \in status[BodyByName(bodies, p.name) # {}]
               /\ C13_Nothing
C13_ObservationStep ==
    \A c \in Conns :
        (conn[c] = Idle /\ (conn'[c] # Idle \/ resp'.op = "create_observation")) =>
        \A p \in RefObservationPayloads :
            (/\ ObservationCreateErrors(p) = {}
             /\ C13_MissingReference(p)
             /\ CreateObservationBegin(c, p))
            => /\ resp'.op = "create_observation"
               /\ resp'.status = 404
               /\ C13_Nothing
C13_AlwaysNotFound ==
    [][C13_BodyStep([taken \in BOOLEAN |-> {404}]) /\ C13_ObservationStep]_vars
\* C13 amended: the same, except that a POST /celestial-bodies whose name is already
\* taken is answered 400 whatever its parent_id; nothing is persisted in either case.
C13_Theorem ==
    [][C13_BodyStep([taken \in BOOLEAN |-> IF taken THEN {400} ELSE {404}])
         /\ C13_ObservationStep]_vars
C13_Witness ==
    /\ resp = Response("create_celestial_body", 400, NoId, {"name exists"})
    /\ \E p \in RefBodyPayloads :
          BodyByName(bodies, p.name) # {} /\ C13_MissingParent(p)
    /\ \E p \in RefObservationPayloads :
          p.astronomer_id \in AstronomerIds /\ p.celestial_body_id \notin BodyIds

\* C14: the parent_id links of the stored bodies form a forest: following parent_id
\* from any body never comes back to that body (no body is its own parent or its own
\* ancestor).
RECURSIVE C14_Ancestors(_, _)
C14_Ancestors(S, n) ==
    IF n = 0 THEN S
    ELSE C14_Ancestors(S \cup {bodies[j].parent_id : j \in S \cap BodyIds}, n - 1)
C14_Tree ==
    \A i \in BodyIds :
        i \notin C14_Ancestors({bodies[i].parent_id}, Cardinality(BodyIds))

\* C15: every stored astronomer with both a birth_date and a death_date has a
\* death_date that is not earlier than the birth_date.
C15_DeathAfterBirth ==
    \A i \in AstronomerIds :
        (astronomers[i].birth_date # NoDate /\ astronomers[i].death_date # NoDate)
        => astronomers[i].death_date >= astronomers[i].birth_date

\* C16: a POST /celestial-bodies with a free name and a type spelled as the data model
\* spells it (planet, star, ...) is accepted, and the body it creates is answered 201
\* and stored with the type that was submitted.
C16_Accepted ==
    \A c \in Conns :
        (conn[c] = Idle /\ (conn'[c] # Idle \/ resp'.op = "create_celestial_body")) =>
        \A p \in TypePayloads :
            (p.type \in ModelBodyType /\ BodyByName(bodies, p.name) = {}
               /\ CreateBodyBegin(c, p))
            => /\ conn'[c].op = "create_celestial_body"
               /\ conn'[c].req.type = p.type
C16_Stored ==
    \A c \in Conns :
        (conn[c].op = "create_celestial_body" /\ conn'[c] = Idle
            /\ BodyByName(bodies, conn[c].req.name) = {} /\ CreateBodyCommit(c))
        => /\ resp'.status = 201
           /\ bodies'[resp'.id].type = conn[c].req.type
C16_TypeAsSubmitted == [][C16_Accepted /\ C16_Stored]_vars

\* C17: a step that answers a request with 422, 400 or 404 leaves the stored bodies,
\* astronomers, observations and users exactly as they were.
C17_Refused == resp' # resp /\ resp'.status \in {422, 400, 404}
C17_RefusedUnchanged == C17_Refused => Tables_Unchanged
C17_Theorem == [][C17_RefusedUnchanged]_vars
C17_Witness ==
    /\ resp = Response("update_users_me", 422, 1, {"password"})
    /\ BodyIds # {} /\ AstronomerIds # {} /\ ObservationIds # {} /\ UserIds # {}

\* C18: a request that is answered with an error leaves none of its writes in the
\* tables (a batch create that fails at commit persists none of its bodies); a request
\* that reaches its commit ends with its session released, and when it is answered 201
\* its row is in the table.
C18_FailedRequest == resp' # resp /\ resp'.status >= 400
C18_NoWriteVisible == C18_FailedRequest => Tables_Unchanged
C18_SessionReleased ==
    \A c \in Conns :
        (conn[c] # Idle /\ conn'[c] # conn[c]) =>
            /\ conn'[c] = Idle
            /\ resp'.status \in {201, 500}
            /\ resp'.status = 201 =>
                  /\ resp'.id \in DOMAIN bodies' \ BodyIds
                  /\ bodies'[resp'.id] = conn[c].req
C19_BodyLoser(c) ==
    /\ CreateBodyCommit(c)
    /\ BodyByName(bodies, conn[c].req.name) # {}
C19_UserLoser(c) ==
    /\ RegisterCommit(c)
    /\ \/ UserByUsername(users, conn[c].req.username) # {}
       \/ UserByEmail(users, conn[c].req.email) # {}
C19_Loser == \E c \in Conns : C19_BodyLoser(c) \/ C19_UserLoser(c)
C19_OneRow == C19_Loser => Tables_Unchanged
C19_NeverSuccess == C19_Loser => resp'.status \notin {200, 201}
C19_Conflict == C19_Loser => resp'.status = 400
\* what the code does keep: one row, and no success answer for the second commit
C19_OneRowNoSuccess == [][C19_OneRow /\ C19_NeverSuccess]_vars
C19_Theorem == [][C19_OneRow /\ C19_NeverSuccess /\ C19_Conflict]_vars

\* C20: GET <prefix>/statistics reaches the statistics handler of its router and is
\* answered 200 in every state, and with no rows the aggregates are zero counts and
\* empty groupings.
C20_Dispatched ==
    \A t \in Routers :
        Get(t, <<"statistics">>) => resp' = Response(StatisticsEndpoint(t), 200, NoId, {})
C20_EmptyResults ==
    /\ BodyIds = {} => BodyStatistics = [total |-> 0, by_type |-> << >>]
    /\ AstronomerIds = {} => AstronomerStatistics = [total |-> 0, by_nationality |-> << >>]
    /\ ObservationIds = {} => ObservationStatistics = [total |-> 0]
C20_Theorem == [][C20_Dispatched]_vars /\ []C20_EmptyResults

\* C21: a search returns exactly the bodies that satisfy every supplied filter (name
\* as a substring, type, distance and magnitude bounds, spectral class, having or not
\* having observations); an absent parameter excludes nothing, and with no parameter
\* every body is returned.
\* value contains name as a substring, letter case ignored
RECURSIVE C21_StartsWith(_, _)
C21_StartsWith(s, prefix) ==
    \/ prefix = << >>
    \/ /\ s # << >>
       /\ Lower(Head(s)) = Lower(Head(prefix))
       /\ C21_StartsWith(Tail(s), Tail(prefix))
RECURSIVE C21_Contains(_, _)
C21_Contains(s, sub) == C21_StartsWith(s, sub) \/ (s # << >> /\ C21_Contains(Tail(s), sub))
C21_Satisfies(i, params) ==
    /\ params.name \notin {NoneStr} => C21_Contains(Chars(bodies[i].name), Chars(params.name))
    /\ params.type # NoneStr => bodies[i].type = params.type
    /\ params.min_distance # NoNumber =>
           bodies[i].distance_from_earth # NoNumber
           /\ bodies[i].distance_from_earth >= params.min_distance
    /\ params.max_distance # NoNumber =>
           bodies[i].distance_from_earth # NoNumber
           /\ bodies[i].distance_from_earth <= params.max_distance
    /\ params.min_magnitude # NoNumber =>
           bodies[i].apparent_magnitude # NoNumber
           /\ bodies[i].apparent_magnitude >= params.min_magnitude
    /\ params.max_magnitude # NoNumber =>
           bodies[i].apparent_magnitude # NoNumber
           /\ bodies[i].apparent_magnitude <= params.max_magnitude
    /\ params.spectral_class # NoneStr => bodies[i].spectral_class = params.spectral_class
    /\ params.has_observations = "True" => HasObservations(i)
    /\ params.has_observations = "False" => ~HasObservations(i)
C21_ExactlySatisfying ==
    \A params \in SearchParams :
        (Search(params, NoneStr, "asc") /\ resp'.status = 200) =>
            {resp'.rows[k] : k \in DOMAIN resp'.rows} = {i \in BodyIds : C21_Satisfies(i, params)}
C21_Theorem == [][C21_ExactlySatisfying]_vars

\* C22: an advanced search is sorted by sort_by when sort_by names a column of the
\* body; for every other sort_by the sort is skipped and the search still succeeds
\* with the filtered rows.
C22_SortedOrSkipped ==
    \A sort_by \in SortParams, sort_order \in {"asc", "desc"} :
        Search(NoSearchParams, sort_by, sort_order) =>
            /\ resp'.status = 200
            /\ {resp'.rows[k] : k \in DOMAIN resp'.rows} = BodyIds
            /\ sort_by \in SortColumns => Ordered(resp'.rows, sort_by, sort_order)
C22_Theorem == [][C22_SortedOrSkipped]_vars
\* what holds: sorted by a column, skipped for a name the class does not have
C22_ColumnOrUnknown ==
    \A sort_by \in SortParams \ OtherAttributes, sort_order \in {"asc", "desc"} :
        Search(NoSearchParams, sort_by, sort_order) =>
            /\ resp'.status = 200
            /\ {resp'.rows[k] : k \in DOMAIN resp'.rows} = BodyIds
            /\ sort_by \in SortColumns => Ordered(resp'.rows, sort_by, sort_order)
C22_Columns == [][C22_ColumnOrUnknown]_vars

\* C23: a list request whose query parameters are accepted is never answered with an
\* error: it returns at most limit rows, the rows left after skipping skip of those
\* that match, and an empty list when nothing matches (as with min_distance above
\* max_distance).
C23_Accepted == resp' # resp /\ resp'.status # 422
C23_Rows(q) == {q[k] : k \in DOMAIN q}
C23_Page(matching, skip, limit) ==
    /\ resp'.status = 200
    /\ Len(resp'.rows) <= limit
    /\ C23_Rows(resp'.rows) \subseteq matching
    /\ Cardinality(C23_Rows(resp'.rows)) = Len(resp'.rows)
    /\ Len(resp'.rows) = IF Cardinality(matching) - skip > limit THEN limit
                         ELSE IF Cardinality(matching) - skip > 0
                         THEN Cardinality(matching) - skip ELSE 0
C23_Bodies(skips) ==
    \A skip \in skips, limit \in Limits, search \in {NoneStr, "AR"},
       body_type \in {NoneStr, "STAR"}, min_distance, max_distance \in ListDistances :
        (ReadBodies(skip, limit, search, body_type, min_distance, max_distance)
         /\ C23_Accepted) =>
            /\ C23_Page(ListedBodies(search, body_type, min_distance, max_distance),
                        skip, limit)
            /\ (min_distance # NoNumber /\ max_distance # NoNumber
                /\ min_distance > max_distance) => resp'.rows = << >>
C23_Observations(skips) ==
    \A skip \in skips, limit \in Limits, astronomer_id, celestial_body_id \in {NoId, 1, 2} :
        (ReadObservations(skip, limit, astronomer_id, celestial_body_id) /\ C23_Accepted) =>
            C23_Page(ListedObservations(astronomer_id, celestial_body_id), skip, limit)
C23_Theorem == [][C23_Bodies(Skips) /\ C23_Observations(Skips)]_vars
\* what holds: the same for a skip the database can hold
C23_InRange == [][C23_Bodies(Skips \ {OutOfRange}) /\ C23_Observations(Skips \ {OutOfRange})]_vars

\* C24: an exception no handler recognises is answered 500 with a generic message,
\* and no part of the answer is the exception's own text.
C24_Generic ==
    resp.status = 500 =>
        \A content \in ErrorContent(resp) :
            /\ content.detail = GenericDetail
            /\ \A f \in DOMAIN content : content[f] \notin resp.detail
\* what holds: the status and the detail field are the generic ones
C24_GenericDetail ==
    resp.status = 500 =>
        /\ ErrorContent(resp) # {}
        /\ \A content \in ErrorContent(resp) : content.detail = GenericDetail

\* C25: in every state reached by astronomer creates, updates and deletes, a create
\* whose first_name and last_name are those of an existing astronomer is answered 400
\* and adds no row.
C25_Duplicate(p) == AstronomerByName(p.first_name, p.last_name) # {}
C25_DuplicateRefused ==
    \A p \in NamedAstronomerPayloads :
        (CreateAstronomer(p) /\ C25_Duplicate(p)) =>
            /\ resp'.status = 400
            /\ astronomers' = astronomers
C25_Theorem == [][C25_DuplicateRefused]_vars
\* what holds: a duplicate create never adds a row
C25_NoRowAdded ==
    [][\A p \in NamedAstronomerPayloads :
          (CreateAstronomer(p) /\ C25_Duplicate(p)) =>
              resp'.status \in {400, 500} /\ astronomers' = astronomers]_vars

\* C26: a batch create, for every list of valid bodies (lists that repeat a name
\* included), creates exactly one body for each distinct name of the list that does
\* not exist yet, skips the names that exist without an error and without changing
\* the stored body, and succeeds.
C26_Names(ps) == {ps[k].name : k \in 1..Len(ps)}
C26_Created(ps) ==
    /\ resp'.status = 201
    /\ \A i \in BodyIds : i \in DOMAIN bodies' /\ bodies'[i] = bodies[i]
    /\ {bodies'[i].name : i \in DOMAIN bodies' \ BodyIds} =
          {n \in C26_Names(ps) : BodyByName(bodies, n) = {}}
    /\ \A i, j \in DOMAIN bodies' \ BodyIds : bodies'[i].name = bodies'[j].name => i = j
C26_Batch(batches) ==
    \A ps \in batches :
        (CreateBatchBodies(ps) /\ \A k \in 1..Len(ps) : ValidBodyCreate(ps[k])) =>
            C26_Created(ps)
C26_Theorem == [][C26_Batch(BodyBatches)]_vars
\* what holds: the same for lists that do not repeat a name
C26_DistinctNames ==
    [][C26_Batch({ps \in BodyBatches : Cardinality(C26_Names(ps)) = Len(ps)})]_vars

\* C27: in every reachable state the parent_id of each body is null or the id of a
\* stored body, also after the parent was deleted, after a batch create and after an
\* update that sets parent_id.
C27_ParentExists ==
    \A i \in BodyIds : bodies[i].parent_id = NoId \/ bodies[i].parent_id \in BodyIds
C27_Theorem == []C27_ParentExists
\* a parent was deleted and its child is left with no parent
C27_Witness ==
    /\ resp = Response("delete_celestial_body", 204, 1, {})
    /\ BodyIds = {2}
    /\ bodies[2].parent_id = NoId
    /\ seq["celestial_bodies"] = 2

\* C28: a PUT on an observation never changes the astronomer_id, celestial_body_id or
\* observation_date of any observation, whatever keys the payload carries, and
\* changes no other table.
C28_Fixed == {"astronomer_id", "celestial_body_id", "observation_date"}
C28_Frame ==
    \A i \in Ids, p \in FramePayloads :
        UpdateObservation(i, p) =>
            /\ DOMAIN observations' = ObservationIds
            /\ \A o \in ObservationIds, f \in C28_Fixed :
                  observations'[o][f] = observations[o][f]
            /\ \A o \in ObservationIds \ {i} : observations'[o] = observations[o]
            /\ UNCHANGED <<bodies, astronomers, users>>
C28_Theorem == [][C28_Frame]_vars
\* a PUT that carried other ids and another date has changed the notes only
C28_Witness ==
    /\ resp = Response("update_observation", 200, 1, {})
    /\ 1 \in ObservationIds
    /\ observations[1].notes = "moved"
    /\ observations[1].astronomer_id = 1
    /\ observations[1].celestial_body_id = 1
    /\ observations[1].observation_date = -1
    /\ 2 \in AstronomerIds /\ 2 \in BodyIds

\* C29: every stored user is active and no superuser, and no request changes
\* either flag of a stored user or removes a user, whatever the payload carries.
C29_Flags == \A i \in UserIds : users[i].is_active /\ ~users[i].is_superuser
C29_Kept ==
    \A i \in UserIds :
        /\ i \in DOMAIN users'
        /\ users'[i].is_active = users[i].is_active
        /\ users'[i].is_superuser = users[i].is_superuser
C29_Theorem == []C29_Flags /\ [][C29_Kept]_vars
\* ann registered with is_superuser true in the payload and sent it again with PUT
C29_Witness ==
    /\ resp = Response("update_users_me", 200, resp.id, {})
    /\ resp.id \in UserIds
    /\ users[resp.id].username = "ann"
    /\ users[resp.id].full_name = "Root"
    /\ users[resp.id].is_active /\ ~users[resp.id].is_superuser

\* C30: a token issued by a successful login expires 30 minutes after issuance and
\* authorizes from then on; a token that authorizes keeps authorizing after every
\* step that does not pass its expiry, a change of password or email included;
\* and a protected route called with an authorizing token is not refused 401/403.
C30_Authorizes(token) == CurrentUserStatus(token) = 0
C30_Issued ==
    \A username \in Usernames :
        (Login(username, PwA) /\ resp'.status = 200) =>
            /\ resp'.access_token.sub = username
            /\ resp'.access_token.exp = now + ACCESS_TOKEN_EXPIRE_MINUTES
            /\ \A token \in LoginTokens :
                  resp'.access_token = token => C30_Authorizes(token)'
C30_Kept ==
    \A token \in LoginTokens :
        (C30_Authorizes(token) /\ now' <= token.exp) => C30_Authorizes(token)'
C30_Served ==
    \A token \in LoginTokens :
        C30_Authorizes(token) =>
            /\ ReadMe(token) => resp'.status = 200
            /\ \A p \in SessionUpdatePayloads :
                  UpdateMe(token, p) => resp'.status \notin {401, 403}
            /\ \A p \in PasswordChangePayloads :
                  ChangePassword(token, p) => resp'.status \notin {401, 403}
C30_Theorem == [][C30_Issued /\ C30_Kept /\ C30_Served]_vars
\* a user who logged in with the first password at 0 is served GET /auth/me after
\* the password and the email have been changed
C30_Witness ==
    /\ resp = Response("read_users_me", 200, resp.id, {})
    /\ resp.id \in UserIds
    /\ users[resp.id].last_login = 0
    /\ users[resp.id].hashed_password.digest = PwB.first72
    /\ users[resp.id].email = "ann@y.com"
    /\ now = 0
====
